---- MODULE Spec2Model ----
(***************************************************************************)
(* A model of the extern surface of the wasmer API crate                   *)
(* (lib/api/src/externals.rs): Global, Table, Memory and Function handles, *)
(* the host -> wasm call path (Function::call / call_wasm) and the         *)
(* wasm -> host reverse trampoline (func_wrapper).                         *)
(*                                                                         *)
(* Every operation is an action; the variable `last` records the operation *)
(* that was performed last, its inputs, what it returned and the part of   *)
(* the state it started from, so that post-conditions are state            *)
(* predicates.                                                             *)
(***************************************************************************)
EXTENDS Integers, Naturals, Sequences, FiniteSets, Bags, TLC

VARIABLES
    globals,    \* Seq of Global handles created so far
    tables,     \* Seq of Table handles created so far
    memories,   \* Seq of Memory handles created so far
    functions,  \* Seq of Function handles created so far
    sigs,       \* the engine's signature registry: Seq of FunctionType, id = index
    last,       \* the last operation: its name, inputs, result, pre-state
    modules,    \* Seq of CompiledModule records loaded so far
    code,       \* the engine's code memory: Seq of regions, writable or executable
    frames,     \* the global frame-info registry: Seq of registrations
    threads,    \* per thread: its position in instantiate / finish_instantiation
    instances   \* Seq of InstanceHandle records

externVars == <<globals, tables, memories, functions>>
loaderVars == <<modules, code, frames, threads, instances>>
vars == <<globals, tables, memories, functions, sigs, last,
          modules, code, frames, threads, instances>>

---------------------------------------------------------------------------
(* Bounds of the model.                                                    *)

NumStores == 2
MaxInt == 1
NumFuncs == 1
MaxGlobals == 1
MaxTables == 2
MaxTableSize == 2
MaxPages == 2
MaxModules == 1
MaxHandles == 2
MaxHostFuncs == 1
MaxInstances == 2
NumThreads == 2

(* Program constants.                                                      *)

WASM_PAGE_SIZE == 65536

---------------------------------------------------------------------------
(* Stores and values.                                                      *)

Stores == 1..NumStores

\* Store::same: stores are compared by identity.
Store_same(a, b) == a = b

NumTypes == {"I32", "I64", "F32", "F64"}

\* The numeric Vals carry no store; a FuncRef carries the Function it refers
\* to (its address `v`) and that Function's store; Val::null() is the null
\* ExternRef.
\* The Functions that exist are F_1 .. F_NumFuncs, one per store it may live
\* in; F_v has the address v and the shared signature id v.
NumVals == [ty : NumTypes, v : 0..MaxInt, store : {0}, sig : {0}]
FuncRefVals ==
    {[ty |-> "FuncRef", v |-> f, store |-> s, sig |-> f] : f \in 1..NumFuncs, s \in Stores}
Val_null == [ty |-> "ExternRef", v |-> 0, store |-> 0, sig |-> 0]
Vals == NumVals \cup FuncRefVals \cup {Val_null}

Val_ty(val) == val.ty

\* StoreObject for Val: only a FuncRef belongs to a store.
Val_comes_from_same_store(val, store) ==
    IF val.ty = "FuncRef" THEN Store_same(val.store, store) ELSE TRUE

\* Results of the API: Ok, Err(RuntimeError(msg)) or a panic (unwrap,
\* unimplemented!, arithmetic overflow in a debug build).
Ok == [kind |-> "ok", msg |-> ""]
Err(m) == [kind |-> "err", msg |-> m]
Panic(m) == [kind |-> "panic", msg |-> m]

CrossStoreMsgs ==
    { "cross-Store globals are not supported",
      "cross-Store values are not supported",
      "cross-Store table copies are not supported" }

Idle == [op |-> "none"]

---------------------------------------------------------------------------
(* Global                                                                  *)

GlobalType_new(ty, mutability) == [ty |-> ty, mutability |-> mutability]

\* Global::from_type: the value is stored into a fresh VMGlobalDefinition.
Global_from_type(store, ty, val) ==
    IF ~Val_comes_from_same_store(val, store)
    THEN [res |-> Err("cross-Store globals are not supported"), global |-> <<>>]
    ELSE IF val.ty \notin NumTypes
    THEN [res |-> Err("create_global for val"), global |-> <<>>]
    ELSE [res |-> Ok,
          global |-> <<[store |-> store, ty |-> ty, definition |-> val.v]>>]

\* Global::new / Global::new_mut: from_type(..).unwrap()
Global_new_with(store, val, mutability) ==
    LET r == Global_from_type(store, GlobalType_new(Val_ty(val), mutability), val)
    IN  IF r.res.kind = "ok" THEN r
        ELSE [res |-> Panic(r.res.msg), global |-> <<>>]

Global_new(store, val) == Global_new_with(store, val, "Const")

Global_new_mut(store, val) == Global_new_with(store, val, "Var")

\* Global::get: the definition read with the declared value type.
Global_get(g) ==
    IF g.ty.ty \in NumTypes
    THEN [ty |-> g.ty.ty, v |-> g.definition, store |-> 0, sig |-> 0]
    ELSE [ty |-> "unimplemented", v |-> 0, store |-> 0, sig |-> 0]

\* A plausible slip: the value is stored before the checks are made.
Global_set_StoreFirst(g, val) ==
    IF g.ty.mutability # "Var"
    THEN [res |-> Err("immutable global cannot be set"), definition |-> val.v]
    ELSE IF Val_ty(val) # g.ty.ty
    THEN [res |-> Err("global of type {:?} cannot be set to {:?}"),
          definition |-> val.v]
    ELSE [res |-> Ok, definition |-> val.v]

\* Global::set: the new result and the new content of the definition.
Global_set(g, val) ==
    IF g.ty.mutability # "Var"
    THEN [res |-> Err("immutable global cannot be set"), definition |-> g.definition]
    ELSE IF Val_ty(val) # g.ty.ty
    THEN [res |-> Err("global of type {:?} cannot be set to {:?}"),
          definition |-> g.definition]
    ELSE IF ~Val_comes_from_same_store(val, g.store)
    THEN [res |-> Err("cross-Store values are not supported"),
          definition |-> g.definition]
    ELSE IF val.ty \in NumTypes
    THEN [res |-> Ok, definition |-> val.v]
    ELSE [res |-> Panic("Global::set unimplemented"), definition |-> g.definition]

\* The values handed to the Global operations: two of the numeric types, a
\* FuncRef of each store and the null reference.
GlobalVals ==
    [ty : {"I32", "F64"}, v : 0..MaxInt, store : {0}, sig : {0}]
        \cup {[ty |-> "FuncRef", v |-> 1, store |-> s, sig |-> 1] : s \in Stores}
        \cup {Val_null}

GlobalNew ==
    /\ Len(globals) < MaxGlobals
    /\ \E store \in Stores, val \in GlobalVals, mutability \in {"Const", "Var"} :
         LET r == IF mutability = "Const" THEN Global_new(store, val)
                  ELSE Global_new_mut(store, val)
         IN  /\ globals' = globals \o r.global
             /\ last' = [op |-> "Global::new", store |-> store, val |-> val,
                         mutability |-> mutability, res |-> r.res,
                         obj |-> Len(globals) + 1,
                         xstore |-> ~Val_comes_from_same_store(val, store)]
    /\ UNCHANGED <<tables, memories, functions, sigs>>
    /\ UNCHANGED loaderVars

GlobalSet ==
    /\ \E i \in 1..Len(globals), val \in GlobalVals :
         LET g == globals[i]
             r == Global_set(g, val)
         IN  /\ globals' = [globals EXCEPT ![i].definition = r.definition]
             /\ last' = [op |-> "Global::set", obj |-> i, val |-> val,
                         res |-> r.res, pre |-> Global_get(g),
                         xstore |-> ~Val_comes_from_same_store(val, g.store)]
    /\ UNCHANGED <<tables, memories, functions, sigs>>
    /\ UNCHANGED loaderVars

---------------------------------------------------------------------------
(* Table                                                                   *)

\* TLC's integers end at 2^31 - 1, below u32::MAX. A u32 that wrapped below
\* zero is 2^32 - k for a small k; it is used only as a table index, where
\* all that matters is that it exceeds every table size, so the largest
\* integer stands for it.
WrappedU32 == 2147483647

None == {}
Some(x) == {x}

NullAnyfunc == [func_ptr |-> 0, type_index |-> 0]

\* Function::checked_anyfunc that leaves the type index at its default.
Function_checked_anyfunc_Untyped(f) == [func_ptr |-> f.v, type_index |-> 0]

\* Function::checked_anyfunc, for the Function a FuncRef refers to.
Function_checked_anyfunc(f) == [func_ptr |-> f.v, type_index |-> f.sig]

\* Val::into_checked_anyfunc(store)
Val_into_checked_anyfunc(val, store) ==
    IF ~Val_comes_from_same_store(val, store)
    THEN [res |-> Err("cross-Store values are not supported"), item |-> NullAnyfunc]
    ELSE IF val = Val_null THEN [res |-> Ok, item |-> NullAnyfunc]
    ELSE IF val.ty = "FuncRef" THEN [res |-> Ok, item |-> Function_checked_anyfunc(val)]
    ELSE [res |-> Err("val is not funcref"), item |-> NullAnyfunc]

\* ValAnyFunc::from_checked_anyfunc(item, store)
ValAnyFunc_from_checked_anyfunc(item, store) ==
    IF item = NullAnyfunc THEN Val_null
    ELSE [ty |-> "FuncRef", v |-> item.func_ptr, store |-> store, sig |-> item.type_index]

\* The runtime's Table: `elems` (1-based here, index i is elems[i + 1]) and
\* the declared maximum.
RuntimeTable_size(t) == Len(t.elems)

RuntimeTable_get(t, index) ==
    IF index < Len(t.elems) THEN Some(t.elems[index + 1]) ELSE None

RuntimeTable_set(t, index, item) ==
    IF index < Len(t.elems)
    THEN [res |-> Ok, elems |-> [t.elems EXCEPT ![index + 1] = item]]
    ELSE [res |-> Err("table access out of bounds"), elems |-> t.elems]

\* The runtime's grow: None when the maximum would be exceeded, otherwise the
\* table is extended with default (null) elements and the previous size is
\* returned. (The sizes of the model are far below u32::MAX, where the sum
\* would overflow and grow would return None as well.)
RuntimeTable_grow(t, delta) ==
    LET size == Len(t.elems)
        new_len == size + delta
    IN  IF \E max \in t.maximum : new_len > max
        THEN [len |-> None, elems |-> t.elems]
        ELSE [len |-> Some(size),
              elems |-> t.elems \o [k \in 1..delta |-> NullAnyfunc]]

\* The runtime's copy: a trap when a range is out of bounds, otherwise the
\* elements move as by memmove.
RuntimeTable_copy(dst, src, dst_index, src_index, len) ==
    IF src_index + len > Len(src.elems) \/ dst_index + len > Len(dst.elems)
    THEN [res |-> Err("table access out of bounds"), elems |-> dst.elems]
    ELSE [res |-> Ok,
          elems |-> [k \in 1..Len(dst.elems) |->
                        IF k - 1 >= dst_index /\ k - 1 < dst_index + len
                        THEN src.elems[(k - 1 - dst_index) + src_index + 1]
                        ELSE dst.elems[k]]]

\* set_table_item
set_table_item(table, item_index, item) == RuntimeTable_set(table, item_index, item)

\* Table::new: every element of the fresh table is set to the initial item.
Table_new(store, ty, init) ==
    LET a == Val_into_checked_anyfunc(init, store)
    IN  IF a.res.kind # "ok" THEN [res |-> a.res, table |-> <<>>]
        ELSE IF \E max \in ty.maximum : ty.minimum > max
        THEN [res |-> Err("create_table"), table |-> <<>>]
        ELSE [res |-> Ok,
              table |-> <<[store |-> store, owned_by_store |-> TRUE,
                           maximum |-> ty.maximum,
                           elems |-> [k \in 1..ty.minimum |-> a.item]]>>]

Table_size(t) == RuntimeTable_size(t)

\* Table::get
Table_get(t, index) ==
    {ValAnyFunc_from_checked_anyfunc(item, t.store) : item \in RuntimeTable_get(t, index)}

\* Table::set
Table_set(t, index, val) ==
    LET a == Val_into_checked_anyfunc(val, t.store)
    IN  IF a.res.kind # "ok" THEN [res |-> a.res, elems |-> t.elems]
        ELSE set_table_item(t, index, a.item)

\* The loop of Table::grow, from iteration i on:
\*   for i in 0..delta { let i = len - (delta - i); set_table_item(table, i, item)?; }
\* The subtraction is on u32: it panics where the build checks overflow and
\* wraps where it does not.
RECURSIVE Table_grow_fill(_, _, _, _, _, _)
Table_grow_fill(t, len, delta, i, item, overflow_checks) ==
    IF i >= delta THEN [res |-> Ok, elems |-> t.elems]
    ELSE IF delta - i > len /\ overflow_checks
    THEN [res |-> Panic("attempt to subtract with overflow"), elems |-> t.elems]
    ELSE LET idx == IF delta - i > len THEN WrappedU32 ELSE len - (delta - i)
             r == set_table_item(t, idx, item)
         IN  IF r.res.kind # "ok" THEN r
             ELSE Table_grow_fill([t EXCEPT !.elems = r.elems], len, delta, i + 1,
                                  item, overflow_checks)

\* Table::grow: the result, the value of Ok(..) and the new elements.
Table_grow(t, delta, init, overflow_checks) ==
    LET a == Val_into_checked_anyfunc(init, t.store)
        g == RuntimeTable_grow(t, delta)
    IN  IF a.res.kind # "ok" THEN [res |-> a.res, ret |-> None, elems |-> t.elems]
        ELSE IF g.len = None
        THEN [res |-> Err("failed to grow table by {}"), ret |-> None, elems |-> t.elems]
        ELSE LET len == CHOOSE l \in g.len : TRUE
                 f == Table_grow_fill([t EXCEPT !.elems = g.elems], len, delta, 0,
                                      a.item, overflow_checks)
             IN  IF f.res.kind # "ok" THEN [res |-> f.res, ret |-> None, elems |-> f.elems]
                 ELSE [res |-> Ok, ret |-> Some(len), elems |-> f.elems]

\* Table::copy
Table_copy(dst_table, dst_index, src_table, src_index, len) ==
    IF ~Store_same(dst_table.store, src_table.store)
    THEN [res |-> Err("cross-Store table copies are not supported"),
          elems |-> dst_table.elems]
    ELSE RuntimeTable_copy(dst_table, src_table, dst_index, src_index, len)

\* The values handed to the Table operations: every FuncRef, the null
\* reference and a value that is no reference.
TableVals == FuncRefVals \cup {Val_null, [ty |-> "I32", v |-> 0, store |-> 0, sig |-> 0]}

TableTypes == [minimum : 0..MaxTableSize, maximum : {None, Some(MaxTableSize)}]

TableNew ==
    /\ Len(tables) < MaxTables
    /\ \E store \in Stores, ty \in TableTypes, init \in TableVals :
         LET r == Table_new(store, ty, init)
         IN  /\ tables' = tables \o r.table
             /\ last' = [op |-> "Table::new", store |-> store, val |-> init,
                         res |-> r.res, obj |-> Len(tables) + 1,
                         xstore |-> ~Val_comes_from_same_store(init, store)]
    /\ UNCHANGED <<globals, memories, functions, sigs>>
    /\ UNCHANGED loaderVars

TableSet ==
    /\ \E i \in 1..Len(tables), index \in 0..MaxTableSize, val \in TableVals :
         LET t == tables[i]
             r == Table_set(t, index, val)
         IN  /\ tables' = [tables EXCEPT ![i].elems = r.elems]
             /\ last' = [op |-> "Table::set", obj |-> i, index |-> index, val |-> val,
                         res |-> r.res, pre |-> t.elems,
                         xstore |-> ~Val_comes_from_same_store(val, t.store)]
    /\ UNCHANGED <<globals, memories, functions, sigs>>
    /\ UNCHANGED loaderVars

TableGrow ==
    /\ \E i \in 1..Len(tables), delta \in 0..MaxTableSize, init \in TableVals,
          overflow_checks \in BOOLEAN :
         LET t == tables[i]
             r == Table_grow(t, delta, init, overflow_checks)
         IN  /\ t.maximum # None \/ Len(t.elems) + delta <= MaxTableSize
             /\ tables' = [tables EXCEPT ![i].elems = r.elems]
             /\ last' = [op |-> "Table::grow", obj |-> i, delta |-> delta, val |-> init,
                         res |-> r.res, ret |-> r.ret, pre |-> t.elems,
                         xstore |-> ~Val_comes_from_same_store(init, t.store)]
    /\ UNCHANGED <<globals, memories, functions, sigs>>
    /\ UNCHANGED loaderVars

TableCopy ==
    /\ \E d \in 1..Len(tables), s \in 1..Len(tables),
          dst_index \in 0..MaxTableSize, src_index \in 0..MaxTableSize,
          len \in 0..MaxTableSize :
         LET r == Table_copy(tables[d], dst_index, tables[s], src_index, len)
         IN  /\ tables' = [tables EXCEPT ![d].elems = r.elems]
             /\ last' = [op |-> "Table::copy", obj |-> d, src |-> s,
                         res |-> r.res, pre |-> tables[d].elems,
                         xstore |-> ~Store_same(tables[d].store, tables[s].store)]
    /\ UNCHANGED <<globals, memories, functions, sigs>>
    /\ UNCHANGED loaderVars

---------------------------------------------------------------------------
(* Memory                                                                  *)

\* The bytes of a memory are followed at the first and the last address of
\* each page.
ProbeAddrs(pages) ==
    {p * WASM_PAGE_SIZE + o : p \in 0..(pages - 1), o \in {0, WASM_PAGE_SIZE - 1}}

CouldNotGrow(current, attempted_delta) ==
    [kind |-> "err", msg |-> "CouldNotGrow", current |-> current,
     attempted_delta |-> attempted_delta]

\* The runtime's LinearMemory: created with the minimum number of pages, all
\* bytes zero.
LinearMemory_new(ty) ==
    IF \E max \in ty.maximum : ty.minimum > max
    THEN [res |-> Err("create_memory"), memory |-> <<>>]
    ELSE [res |-> Ok,
          memory |-> <<[minimum |-> ty.minimum, maximum |-> ty.maximum,
                        pages |-> ty.minimum,
                        current_length |-> ty.minimum * WASM_PAGE_SIZE,
                        bytes |-> [a \in ProbeAddrs(ty.minimum) |-> 0]]>>]

LinearMemory_size(m) == m.pages

\* LinearMemory::vmmemory(): the VMMemoryDefinition (its base is not followed).
LinearMemory_vmmemory(m) == [current_length |-> m.current_length]

\* LinearMemory::grow: CouldNotGrow when the maximum would be exceeded,
\* otherwise the previous size; the added pages are zero.
LinearMemory_grow(m, delta) ==
    LET prev == m.pages
        new_pages == prev + delta
    IN  IF \E max \in m.maximum : new_pages > max
        THEN [res |-> CouldNotGrow(prev, delta), ret |-> None, memory |-> m]
        ELSE [res |-> Ok, ret |-> Some(prev),
              memory |-> [m EXCEPT !.pages = new_pages,
                                   !.current_length = new_pages * WASM_PAGE_SIZE,
                                   !.bytes = [a \in ProbeAddrs(new_pages) |->
                                                IF a \in DOMAIN m.bytes THEN m.bytes[a]
                                                ELSE 0]]]

\* Memory::new
Memory_new(store, ty) ==
    LET r == LinearMemory_new(ty)
    IN  [res |-> r.res,
         memory |-> [k \in 1..Len(r.memory) |->
                        [store |-> store, owned_by_store |-> TRUE, from |-> r.memory[k]]]]

\* Memory::memory
Memory_memory(mem) == mem.from

\* Memory::definition
Memory_definition(mem) == LinearMemory_vmmemory(Memory_memory(mem))

\* A plausible slip: the length is reported in pages.
Memory_data_size_InPages(mem) == LinearMemory_size(Memory_memory(mem))

\* Memory::data_size
Memory_data_size(mem) == Memory_definition(mem).current_length

\* Memory::size
Memory_size(mem) == LinearMemory_size(Memory_memory(mem))

\* A plausible slip: the size after the growth is returned.
Memory_grow_ReturnsNew(mem, delta) ==
    LET r == LinearMemory_grow(Memory_memory(mem), delta)
    IN  [r EXCEPT !.ret = {prev + delta : prev \in r.ret}]

\* A plausible slip: the error reports the size the growth aimed at.
Memory_grow_ErrReportsTarget(mem, delta) ==
    LET r == LinearMemory_grow(Memory_memory(mem), delta)
    IN  IF r.res.kind = "ok" THEN r
        ELSE [r EXCEPT !.res = CouldNotGrow(r.res.current + delta, delta)]

\* Memory::grow
Memory_grow(mem, delta) == LinearMemory_grow(Memory_memory(mem), delta)

\* wasmer_memory_grow: the result of grow as a wasmer_result_t.
wasmer_memory_grow(mem, delta) ==
    LET r == Memory_grow(mem, delta)
    IN  [r EXCEPT !.res = IF r.res.kind = "ok" THEN [kind |-> "ok", msg |-> "WASMER_OK"]
                          ELSE [kind |-> "err", msg |-> "WASMER_ERROR"]]

\* Memory::data_unchecked_mut: the bytes [base, base + current_length) can be
\* written.
Memory_data_unchecked_mut(mem) ==
    {a \in DOMAIN Memory_memory(mem).bytes : a < Memory_definition(mem).current_length}

MemoryTypes ==
    [minimum : 0..1, maximum : {None} \cup {Some(max) : max \in 1..MaxPages}]

MemoryGrow ==
    /\ \E i \in 1..Len(memories), delta \in 0..MaxPages :
         LET mem == memories[i]
             r == Memory_grow(mem, delta)
         IN  /\ Memory_memory(mem).maximum # None
                  \/ Memory_size(mem) + delta <= MaxPages
             /\ memories' = [memories EXCEPT ![i].from = r.memory]
             /\ last' = [op |-> "Memory::grow", obj |-> i, delta |-> delta,
                         res |-> r.res, ret |-> r.ret,
                         pre_size |-> Memory_size(mem)]
    /\ UNCHANGED <<globals, tables, functions, sigs>>
    /\ UNCHANGED loaderVars

WasmerMemoryGrow ==
    /\ \E i \in 1..Len(memories), delta \in 0..MaxPages :
         LET mem == memories[i]
             r == wasmer_memory_grow(mem, delta)
         IN  /\ Memory_memory(mem).maximum # None
                  \/ Memory_size(mem) + delta <= MaxPages
             /\ memories' = [memories EXCEPT ![i].from = r.memory]
             /\ last' = [op |-> "wasmer_memory_grow", obj |-> i, delta |-> delta,
                         res |-> r.res, ret |-> r.ret,
                         pre_size |-> Memory_size(mem)]
    /\ UNCHANGED <<globals, tables, functions, sigs>>
    /\ UNCHANGED loaderVars

MemoryStore ==
    /\ \E i \in 1..Len(memories) :
         \E a \in Memory_data_unchecked_mut(memories[i]), byte \in {0, 255} :
             /\ memories' = [memories EXCEPT ![i].from.bytes[a] = byte]
             /\ last' = [op |-> "Memory::data_unchecked_mut", obj |-> i,
                         addr |-> a, byte |-> byte]
    /\ UNCHANGED <<globals, tables, functions, sigs>>
    /\ UNCHANGED loaderVars

---------------------------------------------------------------------------
(* wasmer_memory_data_copy and its u32 arithmetic                          *)

\* A u32 is kept as two 16-bit halves, hi * 2^16 + lo, so that sums and
\* differences modulo 2^32 are computed exactly.
U32_HALF == 65536
U32(hi, lo) == [hi |-> hi, lo |-> lo]

\* a + b on u32: the wrapped value and whether the sum left the u32 range.
U32_add(a, b) ==
    LET lo == a.lo + b.lo
        hi == a.hi + b.hi + (lo \div U32_HALF)
    IN  [val |-> U32(hi % U32_HALF, lo % U32_HALF), overflow |-> hi >= U32_HALF]

\* a - b on u32: the wrapped value and whether the difference is below zero.
U32_sub(a, b) ==
    LET borrow == IF a.lo < b.lo THEN 1 ELSE 0
        lo == a.lo - b.lo + borrow * U32_HALF
        hi == a.hi - b.hi - borrow
    IN  [val |-> U32((hi + U32_HALF) % U32_HALF, lo), overflow |-> hi < 0]

U32_gt(a, b) == a.hi > b.hi \/ (a.hi = b.hi /\ a.lo > b.lo)

\* The address a lies in [mem_offset, mem_offset + buffer_len), the range
\* std::ptr::copy writes (the sum is not reduced modulo 2^32: it is a
\* pointer offset).
CopyRange(a, mem_offset, buffer_len) ==
    LET lo == mem_offset.lo + buffer_len.lo
        end_hi == mem_offset.hi + buffer_len.hi + (lo \div U32_HALF)
        end_lo == lo % U32_HALF
        addr == U32(a \div U32_HALF, a % U32_HALF)
    IN  /\ ~U32_gt(mem_offset, addr)
        /\ addr.hi < end_hi \/ (addr.hi = end_hi /\ addr.lo < end_lo)

\* mem_offset + buffer_len, as unbounded integers, is at most the number of
\* bytes of the memory.
CopyInBounds(mem, mem_offset, buffer_len) ==
    LET lo == mem_offset.lo + buffer_len.lo
        end_hi == mem_offset.hi + buffer_len.hi + (lo \div U32_HALF)
        end_lo == lo % U32_HALF
    IN  end_hi < Memory_size(mem) \/ (end_hi = Memory_size(mem) /\ end_lo = 0)

\* The copy writes at least one byte outside the memory.
CopyLeavesMemory(mem, mem_offset, buffer_len) ==
    buffer_len # U32(0, 0) /\ ~CopyInBounds(mem, mem_offset, buffer_len)

\* wasmer_memory_data_length: size().bytes() is pages * 65536 as a usize,
\* cast to u32.
wasmer_memory_data_length(mem) == U32(Memory_size(mem) % U32_HALF, 0)

WASMER_OK == [kind |-> "ok", msg |-> "WASMER_OK"]
WASMER_ERROR == [kind |-> "err", msg |-> "WASMER_ERROR"]

\* wasmer_memory_data_copy: the result and the bytes of the memory after the
\* call. The three u32 operations panic on overflow where the build checks
\* it and wrap where it does not. A copy that leaves the memory is undefined
\* behaviour: it crashes or it writes outside (out_of_bounds_write).
wasmer_memory_data_copy(mem, mem_offset, buffer_len, byte, overflow_checks, crashes) ==
    LET bytes == Memory_memory(mem).bytes
        last_mem_offset == U32_sub(wasmer_memory_data_length(mem), U32(0, 1))
        len_less_one == U32_sub(buffer_len, U32(0, 1))
        last_mem_copy_offset == U32_add(mem_offset, len_less_one.val)
        unchanged == [bytes |-> bytes, out_of_bounds_write |-> FALSE]
    IN  IF overflow_checks /\ last_mem_offset.overflow
        THEN [res |-> Panic("attempt to subtract with overflow")] @@ unchanged
        ELSE IF overflow_checks /\ len_less_one.overflow
        THEN [res |-> Panic("attempt to subtract with overflow")] @@ unchanged
        ELSE IF overflow_checks /\ last_mem_copy_offset.overflow
        THEN [res |-> Panic("attempt to add with overflow")] @@ unchanged
        ELSE IF U32_gt(last_mem_copy_offset.val, last_mem_offset.val)
        THEN [res |-> WASMER_ERROR] @@ unchanged
        ELSE IF CopyLeavesMemory(mem, mem_offset, buffer_len) /\ crashes
        THEN [res |-> Panic("SIGSEGV")] @@ unchanged
        ELSE [res |-> WASMER_OK,
              bytes |-> [a \in DOMAIN bytes |->
                            IF CopyRange(a, mem_offset, buffer_len) THEN byte
                            ELSE bytes[a]],
              out_of_bounds_write |-> CopyLeavesMemory(mem, mem_offset, buffer_len)]

\* The offsets and lengths handed to wasmer_memory_data_copy: zero, small
\* ones, one page and u32::MAX.
CopyOffsets == {U32(0, 0), U32(0, 2), U32(1, 0), U32(U32_HALF - 1, U32_HALF - 1)}
CopyLens == {U32(0, 0), U32(0, 1), U32(1, 0), U32(U32_HALF - 1, U32_HALF - 1)}

WasmerMemoryDataCopy ==
    /\ \E i \in 1..Len(memories), mem_offset \in CopyOffsets, buffer_len \in CopyLens,
          overflow_checks \in BOOLEAN, crashes \in BOOLEAN :
         LET mem == memories[i]
             r == wasmer_memory_data_copy(mem, mem_offset, buffer_len, 255,
                                          overflow_checks, crashes)
         IN  /\ memories' = [memories EXCEPT ![i].from.bytes = r.bytes]
             /\ last' = [op |-> "wasmer_memory_data_copy", obj |-> i,
                         mem_offset |-> mem_offset, buffer_len |-> buffer_len,
                         res |-> r.res,
                         out_of_bounds_write |-> r.out_of_bounds_write,
                         pre |-> mem]
    /\ UNCHANGED <<globals, tables, functions, sigs>>
    /\ UNCHANGED loaderVars

---------------------------------------------------------------------------
(* Function: construction, Function::call and the forward trampoline       *)

FunctionType_new(params, results) == [params |-> params, results |-> results]

\* The function types of the model: (i32, i32) -> i32 as in tests/compilers/
\* functions.rs, one with more results than parameters, one taking a reference.
FuncTypes ==
    { FunctionType_new(<<"I32", "I32">>, <<"I32">>),
      FunctionType_new(<<>>, <<"I32", "I64">>),
      FunctionType_new(<<"FuncRef">>, <<>>) }

\* An entry of the registry is a signature that is present, or what is left
\* of one whose id was retired: the entry keeps its place, so that the id is
\* never handed out again, and remembers the signature it stood for.
Retired(ty) == [params |-> ty.params, results |-> ty.results, retired |-> TRUE]
IsRetired(entry) == "retired" \in DOMAIN entry
SignatureOf(entry) == [params |-> entry.params, results |-> entry.results]
LiveIds(reg) == {id \in 1..Len(reg) : ~IsRetired(reg[id])}

\* SignatureRegistry::register: the id of a signature is its place in the
\* registry; a signature that is present keeps its id, any other (a new one,
\* or one whose id was retired) gets the next id.
register_signature(reg, ty) ==
    IF \E id \in 1..Len(reg) : reg[id] = ty
    THEN [signature |-> CHOOSE id \in 1..Len(reg) : reg[id] = ty, sigs |-> reg]
    ELSE [signature |-> Len(reg) + 1, sigs |-> Append(reg, ty)]

\* SignatureRegistry::lookup
lookup_signature(reg, id) == reg[id]

\* SignatureRegistry::release: the reference count of the id is decremented.
\* The counts of the users of the engine are not kept here: `last_holder`
\* says whether this release took the count to zero in a registry that
\* retires ids (a registry that interns never does).
release_signature(reg, id, last_holder) ==
    IF last_holder /\ ~IsRetired(reg[id]) THEN [reg EXCEPT ![id] = Retired(reg[id])]
    ELSE reg

\* Function::new (vmctx null) and Function::new_env (vmctx the environment)
Function_new(store, func_type, vmctx, reg) ==
    LET r == register_signature(reg, func_type)
    IN  [function |-> [store |-> store, owned_by_store |-> TRUE, definition |-> "Host",
                       exported |-> [address |-> "func", vmctx |-> vmctx,
                                     signature |-> r.signature, kind |-> "Static"]],
         sigs |-> r.sigs]

\* Function::new_dynamic that takes the newest id of the registry for the id
\* of its signature.
Function_new_dynamic_NewestId(store, ty, withEnv, reg) ==
    LET r == register_signature(reg, ty)
    IN  [function |-> [store |-> store, owned_by_store |-> TRUE, definition |-> "Host",
                       exported |-> [address |-> "null",
                                     vmctx |-> IF withEnv THEN "dynamic_ctx_env"
                                               ELSE "dynamic_ctx",
                                     signature |-> Len(r.sigs), kind |-> "Dynamic"]],
         sigs |-> r.sigs]

\* Function::new_dynamic and Function::new_dynamic_env: the callable is boxed
\* into the dynamic context the vmctx points at.
Function_new_dynamic(store, ty, withEnv, reg) ==
    LET r == register_signature(reg, ty)
    IN  [function |-> [store |-> store, owned_by_store |-> TRUE, definition |-> "Host",
                       exported |-> [address |-> "null",
                                     vmctx |-> IF withEnv THEN "dynamic_ctx_env"
                                               ELSE "dynamic_ctx",
                                     signature |-> r.signature, kind |-> "Dynamic"]],
         sigs |-> r.sigs]

\* Function::from_export: a function an instance exports, with the call
\* trampoline of its signature.
Function_from_export(store, wasmer_export) ==
    [store |-> store, owned_by_store |-> FALSE, definition |-> "Wasm",
     exported |-> wasmer_export]

\* Function::ty that answers with the first signature of the registry.
Function_ty_FirstRegistered(f) == lookup_signature(sigs, 1)

\* Function::ty
Function_ty(f) == lookup_signature(sigs, f.exported.signature)

\* Function::param_arity, Function::result_arity
Function_param_arity(f) == Len(Function_ty(f).params)
Function_result_arity(f) == Len(Function_ty(f).results)

\* A slot of values_vec holds the raw bits of a value; its type is not kept.
ZeroSlot == [v |-> 0, store |-> 0, sig |-> 0]

\* Val::write_value_to
Val_write_value_to(val) == [v |-> val.v, store |-> val.store, sig |-> val.sig]

\* Val::read_value_from(ptr, ty)
Val_read_value_from(slot, ty) ==
    [ty |-> ty, v |-> slot.v, store |-> slot.store, sig |-> slot.sig]

Max(a, b) == IF a > b THEN a ELSE b
Min(a, b) == IF a < b THEN a ELSE b

Types(vals) == [k \in 1..Len(vals) |-> Val_ty(vals[k])]

\* What a callee does once it is entered: it returns values, traps / returns
\* Err, or (a host callable) panics.
Returns(vals) == [kind |-> "ok", vals |-> vals]
Traps == [kind |-> "err", vals |-> <<>>]
Panics == [kind |-> "panic", vals |-> <<>>]

\* A slot of values_vec is an i128: 16 bytes.
VALUE_SIZE == 16

\* The slot of values_vec at a byte offset; past the end of the vector, or
\* between two slots, the load does not find a value the caller wrote.
Garbage == [v |-> -1, store |-> 0, sig |-> 0]
SlotAt(values_vec, offset) ==
    IF offset % VALUE_SIZE = 0 /\ offset \div VALUE_SIZE < Len(values_vec)
    THEN values_vec[(offset \div VALUE_SIZE) + 1]
    ELSE Garbage

\* make_wasm_trampoline that counts the two vmctx parameters among the
\* slots of values_vec.
make_wasm_trampoline_VmctxInArray(func_type, value_size) ==
    [loads |-> [i \in 1..Len(func_type.params) |->
                   [op |-> "load", ty |-> func_type.params[i],
                    offset |-> (i + 1) * value_size]],
     call |-> [op |-> "call_indirect", args |-> 2 + Len(func_type.params)],
     stores |-> [i \in 1..Len(func_type.results) |->
                    [op |-> "store", result |-> i, offset |-> (i - 1) * value_size]]]

\* make_wasm_trampoline: the instructions of the trampoline of a function
\* type, in program order: a load for every parameter of the Cranelift
\* signature but the first two (vmctx and caller vmctx, passed in registers),
\* the indirect call, and a store for every result.
make_wasm_trampoline(func_type, value_size) ==
    LET signature_params == <<"vmctx", "caller_vmctx">> \o func_type.params
    IN  [loads |-> [k \in 1..(Len(signature_params) - 2) |->
                       [op |-> "load", ty |-> signature_params[k + 2],
                        offset |-> ((k + 2 - 1) - 2) * value_size]],
         call |-> [op |-> "call_indirect", args |-> Len(signature_params)],
         stores |-> [i \in 1..Len(func_type.results) |->
                        [op |-> "store", result |-> i, offset |-> (i - 1) * value_size]]]

\* The forward trampoline run on values_vec: the arguments are loaded, the
\* callee is called, its results are stored. `trace` is the instructions
\* that ran, in order.
wasm_trampoline(func_type, values_vec, callee) ==
    LET tramp == make_wasm_trampoline(func_type, VALUE_SIZE)
        callee_args == [k \in 1..Len(tramp.loads) |->
                           Val_read_value_from(SlotAt(values_vec, tramp.loads[k].offset),
                                               tramp.loads[k].ty)]
        stored(k) == {i \in 1..Len(tramp.stores) :
                         /\ tramp.stores[i].offset = (k - 1) * VALUE_SIZE
                         /\ i <= Len(callee.vals)}
    IN  IF callee.kind # "ok"
        THEN [res |-> Err("trap"), invoked |-> <<callee_args>>, values_vec |-> values_vec,
              trace |-> tramp.loads \o <<tramp.call>>]
        ELSE [res |-> Ok, invoked |-> <<callee_args>>,
              values_vec |-> [k \in 1..Len(values_vec) |->
                                 IF stored(k) # {}
                                 THEN Val_write_value_to(
                                          callee.vals[CHOOSE i \in stored(k) : TRUE])
                                 ELSE values_vec[k]],
              trace |-> tramp.loads \o <<tramp.call>> \o tramp.stores]

\* wasmer_call_trampoline: the trampoline run in a trap-catching frame.
wasmer_call_trampoline(func_type, values_vec, callee) ==
    wasm_trampoline(func_type, values_vec, callee)

\* Function::call_wasm
Function_call_wasm(f, params, results, callee) ==
    LET signature == Function_ty(f)
        n == Max(Len(params), Len(results))
        zipped == Min(Len(params), Len(signature.params))
        values_vec == [k \in 1..n |->
                          IF k <= zipped THEN Val_write_value_to(params[k]) ELSE ZeroSlot]
    IN  IF Len(signature.params) # Len(params)
        THEN [res |-> Err("expected {} arguments, got {}"), results |-> results,
              invoked |-> <<>>, values_vec |-> <<>>, trace |-> <<>>]
        ELSE IF Len(signature.results) # Len(results)
        THEN [res |-> Err("expected {} results, got {}"), results |-> results,
              invoked |-> <<>>, values_vec |-> <<>>, trace |-> <<>>]
        ELSE IF \E k \in 1..zipped : Val_ty(params[k]) # signature.params[k]
        THEN [res |-> Err("Parameters of type [{}] did not match signature {}"),
              results |-> results, invoked |-> <<>>, values_vec |-> <<>>,
              trace |-> <<>>]
        ELSE LET t == wasmer_call_trampoline(signature, values_vec, callee)
             IN  IF t.res.kind # "ok"
                 THEN [res |-> Err("RuntimeError::from_trap"), results |-> results,
                       invoked |-> t.invoked, values_vec |-> values_vec,
                       trace |-> t.trace]
                 ELSE [res |-> Ok, invoked |-> t.invoked, values_vec |-> values_vec,
                       trace |-> t.trace,
                       results |-> [k \in 1..Len(signature.results) |->
                                       Val_read_value_from(t.values_vec[k],
                                                           signature.results[k])]]

\* Function::call: only a Wasm definition is dispatched.
Function_call(f, params, callee) ==
    LET results == [k \in 1..Function_result_arity(f) |-> Val_null]
    IN  IF f.definition = "Wasm"
        THEN LET r == Function_call_wasm(f, params, results, callee)
             IN  IF r.res.kind # "ok" THEN [r EXCEPT !.results = <<>>] ELSE r
        ELSE [res |-> Ok, results |-> results, invoked |-> <<>>, values_vec |-> <<>>,
              trace |-> <<>>]

\* The values handed to calls and returned by callees.
CallVals ==
    {[ty |-> "I32", v |-> n, store |-> 0, sig |-> 0] : n \in {0, MaxInt}}
        \cup {[ty |-> "I64", v |-> 0, store |-> 0, sig |-> 0]}
        \cup {[ty |-> "FuncRef", v |-> 1, store |-> s, sig |-> 1] : s \in Stores}

\* The longest parameter and result lists of the function types.
Arities == {Len(t.params) : t \in FuncTypes} \cup {Len(t.results) : t \in FuncTypes}
MaxArity == CHOOSE n \in Arities : \A m \in Arities : m <= n

RetVals ==
    { [ty |-> "I32", v |-> MaxInt, store |-> 0, sig |-> 0],
      [ty |-> "I64", v |-> 0, store |-> 0, sig |-> 0] }

SeqsUpTo(S, n) == UNION {[1..k -> S] : k \in 0..n}

ArgLists == SeqsUpTo(CallVals, MaxArity)

HostOutcomes == {Returns(vals) : vals \in SeqsUpTo(RetVals, MaxArity)} \cup {Traps, Panics}

\* Compiled code returns values of the result types of its signature, or traps.
WasmOutcomes(func_type) ==
    {o \in HostOutcomes : o.kind = "err"
                            \/ (o.kind = "ok" /\ Types(o.vals) = func_type.results)}

FunctionCall ==
    /\ \E i \in 1..Len(functions), params \in ArgLists, callee \in HostOutcomes :
         LET f == functions[i]
             r == Function_call(f, params, callee)
         IN  /\ f.definition = "Wasm" => callee \in WasmOutcomes(Function_ty(f))
             /\ last' = [op |-> "Function::call", obj |-> i, params |-> params,
                         callee |-> callee, res |-> r.res, results |-> r.results,
                         invoked |-> r.invoked, values_vec |-> r.values_vec,
                         trace |-> r.trace,
                         xstore |-> \E k \in 1..Len(params) :
                                       ~Val_comes_from_same_store(params[k], f.store)]
    /\ UNCHANGED <<globals, tables, memories, functions, sigs>>
    /\ UNCHANGED loaderVars

---------------------------------------------------------------------------
(* The reverse trampoline of a dynamic host function                       *)

\* VMDynamicFunction::call: the boxed callable is invoked; what it does is
\* its own (`host`).
VMDynamicFunction_call(host, args) == host

\* A plausible slip: only the number of returned values is compared.
func_wrapper_closure_LenOnly(func_ty, values_vec, host) ==
    LET args == [k \in 1..Len(func_ty.params) |->
                    Val_read_value_from(values_vec[k], func_ty.params[k])]
        returns == VMDynamicFunction_call(host, args)
    IN  IF returns.kind = "panic"
        THEN [kind |-> "panic", msg |-> "", args |-> args, values_vec |-> values_vec]
        ELSE IF returns.kind = "err"
        THEN [kind |-> "err", msg |-> "host error", args |-> args,
              values_vec |-> values_vec]
        ELSE IF Len(returns.vals) # Len(func_ty.results)
        THEN [kind |-> "err", msg |-> "Dynamic function returned wrong signature",
              args |-> args, values_vec |-> values_vec]
        ELSE [kind |-> "ok", msg |-> "", args |-> args,
              values_vec |-> [k \in 1..Len(values_vec) |->
                                 IF k <= Len(returns.vals)
                                 THEN Val_write_value_to(returns.vals[k])
                                 ELSE values_vec[k]]]

\* The closure func_wrapper runs inside catch_unwind: its result is Ok(()),
\* Err(RuntimeError) or a panic.
func_wrapper_closure(func_ty, values_vec, host) ==
    LET args == [k \in 1..Len(func_ty.params) |->
                    Val_read_value_from(values_vec[k], func_ty.params[k])]
        returns == VMDynamicFunction_call(host, args)
        return_types == Types(returns.vals)
    IN  IF returns.kind = "panic"
        THEN [kind |-> "panic", msg |-> "", args |-> args, values_vec |-> values_vec]
        ELSE IF returns.kind = "err"
        THEN [kind |-> "err", msg |-> "host error", args |-> args,
              values_vec |-> values_vec]
        ELSE IF return_types # func_ty.results
        THEN [kind |-> "err", msg |-> "Dynamic function returned wrong signature",
              args |-> args, values_vec |-> values_vec]
        ELSE [kind |-> "ok", msg |-> "", args |-> args,
              values_vec |-> [k \in 1..Len(values_vec) |->
                                 IF k <= Len(returns.vals)
                                 THEN Val_write_value_to(returns.vals[k])
                                 ELSE values_vec[k]]]

\* A plausible slip: the closure is run without catch_unwind, so that a panic
\* of the host callable unwinds through the Wasm frames of the caller.
func_wrapper_NoCatch(func_ty, values_vec, host) ==
    LET result == func_wrapper_closure(func_ty, values_vec, host)
    IN  [outcome |-> CASE result.kind = "ok" -> "return"
                       [] result.kind = "err" -> "raise_user_trap"
                       [] OTHER -> "unwind",
         msg |-> result.msg, args |-> result.args, values_vec |-> result.values_vec]

\* func_wrapper: how the call of the reverse trampoline ends.
func_wrapper(func_ty, values_vec, host) ==
    LET result == func_wrapper_closure(func_ty, values_vec, host)
    IN  [outcome |-> CASE result.kind = "ok" -> "return"
                       [] result.kind = "err" -> "raise_user_trap"
                       [] OTHER -> "resume_panic",
         msg |-> result.msg, args |-> result.args, values_vec |-> result.values_vec]

\* Wasm code calls an imported dynamic host function: the generated code has
\* stored the arguments, typed as the signature says, into values_vec.
FuncWrapper ==
    /\ \E i \in 1..Len(functions), args \in ArgLists, host \in HostOutcomes :
         LET f == functions[i]
             func_ty == Function_ty(f)
             n == Max(Len(func_ty.params), Len(func_ty.results))
             values_vec == [k \in 1..n |->
                               IF k <= Len(args) THEN Val_write_value_to(args[k])
                               ELSE ZeroSlot]
             r == func_wrapper(func_ty, values_vec, host)
         IN  /\ f.exported.kind = "Dynamic"
             /\ Types(args) = func_ty.params
             /\ last' = [op |-> "func_wrapper", obj |-> i, func_ty |-> func_ty,
                         args |-> args, host |-> host, outcome |-> r.outcome,
                         msg |-> r.msg, passed |-> r.args,
                         values_vec |-> r.values_vec]
    /\ UNCHANGED <<globals, tables, memories, functions, sigs>>
    /\ UNCHANGED loaderVars

---------------------------------------------------------------------------
(* The compilation artifact and its byte format (engine-jit serialize.rs)  *)

\* PrimaryMap<K, V> is a dense map: a sequence indexed from the first key.
\* A FunctionBody, a CustomSection, a JumpTableOffsets, a frame info and a
\* Vec<Relocation> are each a sequence of words.
RECURSIVE Concat(_)
Concat(ss) == IF ss = <<>> THEN <<>> ELSE Head(ss) \o Concat(Tail(ss))

\* Borsh writes a Vec as its length followed by its elements.
Borsh_serialize_vec(v) == <<Len(v)>> \o v

\* PrimaryMap::values().collect::<Vec<_>>() written with Borsh: the number of
\* entries, then every entry in index order.
Borsh_serialize_map(m) ==
    <<Len(m)>> \o Concat([i \in 1..Len(m) |-> Borsh_serialize_vec(m[i])])

\* bincode writes a sequence the same way: length, then elements.
bincode_serialize_map(m) == Borsh_serialize_map(m)

\* Option<Dwarf>: a tag, then the section index if there is one.
Borsh_serialize_option(o) ==
    IF o = None THEN <<0>> ELSE <<1>> \o <<CHOOSE x \in o : TRUE>>

\* BorshSerialize for SerializableCompilation.
SerializableCompilation_serialize(c) ==
    Borsh_serialize_map(c.function_bodies)
        \o Borsh_serialize_map(c.function_relocations)
        \o Borsh_serialize_vec(bincode_serialize_map(c.function_jt_offsets))
        \o Borsh_serialize_map(c.function_frame_info)
        \o Borsh_serialize_map(c.function_call_trampolines)
        \o Borsh_serialize_map(c.dynamic_function_trampolines)
        \o Borsh_serialize_map(c.custom_sections)
        \o Borsh_serialize_map(c.custom_section_relocations)
        \o Borsh_serialize_option(c.debug)

\* The one element of a singleton set: { e(x) : x \in {v} } computes v once
\* and names it x in e.
Only(S) == CHOOSE x \in S : TRUE

\* A read either fails or yields a value and the rest of the buffer.
ReadErr == [ok |-> FALSE, val |-> <<>>, rest |-> <<>>]
ReadOk(val, rest) == [ok |-> TRUE, val |-> val, rest |-> rest]

\* The buffer without its first n words.
Drop(buf, n) == SubSeq(buf, n + 1, Len(buf))

Borsh_deserialize_vec(buf) ==
    IF buf = <<>> \/ Len(buf) - 1 < Head(buf)
    THEN ReadErr
    ELSE ReadOk(SubSeq(buf, 2, Head(buf) + 1), Drop(buf, Head(buf) + 1))

\* n entries read one after the other, appended to acc.
RECURSIVE Borsh_deserialize_entries(_, _, _)
Borsh_deserialize_entries(buf, n, acc) ==
    IF n = 0 THEN ReadOk(acc, buf)
    ELSE Only({ IF ~e.ok THEN ReadErr
                ELSE Borsh_deserialize_entries(e.rest, n - 1, Append(acc, e.val))
                : e \in {Borsh_deserialize_vec(buf)} })

\* Vec<V> read with Borsh, then PrimaryMap::from_iter.
Borsh_deserialize_map(buf) ==
    IF buf = <<>> THEN ReadErr
    ELSE Borsh_deserialize_entries(Tail(buf), Head(buf), <<>>)

\* bincode::deserialize of the jump-table map from the inner buffer: the map
\* is read from the front of the buffer; words that follow it are ignored.
bincode_deserialize_map(v) == Borsh_deserialize_map(v)

Borsh_deserialize_option(buf) ==
    IF buf = <<>> THEN ReadErr
    ELSE IF Head(buf) = 0 THEN ReadOk(None, Tail(buf))
    ELSE IF Head(buf) = 1 /\ Len(buf) >= 2 THEN ReadOk(Some(buf[2]), Drop(buf, 2))
    ELSE ReadErr


\* BorshDeserialize for SerializableCompilation reading the dynamic
\* trampolines before the call trampolines.
SerializableCompilation_deserialize_Swapped(buf) ==
  Only({ IF ~function_bodies.ok THEN ReadErr ELSE
  Only({ IF ~function_relocations.ok THEN ReadErr ELSE
  Only({ IF ~v.ok THEN ReadErr ELSE
  Only({ IF ~function_jt_offsets.ok THEN ReadErr ELSE
  Only({ IF ~function_frame_info.ok THEN ReadErr ELSE
  Only({ IF ~dynamic_function_trampolines.ok THEN ReadErr ELSE
  Only({ IF ~function_call_trampolines.ok THEN ReadErr ELSE
  Only({ IF ~custom_sections.ok THEN ReadErr ELSE
  Only({ IF ~custom_section_relocations.ok THEN ReadErr ELSE
  Only({ IF ~debug.ok THEN ReadErr ELSE
         ReadOk([function_bodies |-> function_bodies.val,
                 function_relocations |-> function_relocations.val,
                 function_jt_offsets |-> function_jt_offsets.val,
                 function_frame_info |-> function_frame_info.val,
                 function_call_trampolines |-> function_call_trampolines.val,
                 dynamic_function_trampolines |-> dynamic_function_trampolines.val,
                 custom_sections |-> custom_sections.val,
                 custom_section_relocations |-> custom_section_relocations.val,
                 debug |-> debug.val],
                debug.rest)
    : debug \in {Borsh_deserialize_option(custom_section_relocations.rest)} })
    : custom_section_relocations \in {Borsh_deserialize_map(custom_sections.rest)} })
    : custom_sections \in {Borsh_deserialize_map(function_call_trampolines.rest)} })
    : function_call_trampolines \in
          {Borsh_deserialize_map(dynamic_function_trampolines.rest)} })
    : dynamic_function_trampolines \in {Borsh_deserialize_map(function_frame_info.rest)} })
    : function_frame_info \in {Borsh_deserialize_map(v.rest)} })
    : function_jt_offsets \in {bincode_deserialize_map(v.val)} })
    : v \in {Borsh_deserialize_vec(function_relocations.rest)} })
    : function_relocations \in {Borsh_deserialize_map(function_bodies.rest)} })
    : function_bodies \in {Borsh_deserialize_map(buf)} })

\* BorshDeserialize for SerializableCompilation: the fields are read in the
\* order they were written; the first read that fails fails the whole.
SerializableCompilation_deserialize(buf) ==
  Only({ IF ~function_bodies.ok THEN ReadErr ELSE
  Only({ IF ~function_relocations.ok THEN ReadErr ELSE
  Only({ IF ~v.ok THEN ReadErr ELSE
  Only({ IF ~function_jt_offsets.ok THEN ReadErr ELSE
  Only({ IF ~function_frame_info.ok THEN ReadErr ELSE
  Only({ IF ~function_call_trampolines.ok THEN ReadErr ELSE
  Only({ IF ~dynamic_function_trampolines.ok THEN ReadErr ELSE
  Only({ IF ~custom_sections.ok THEN ReadErr ELSE
  Only({ IF ~custom_section_relocations.ok THEN ReadErr ELSE
  Only({ IF ~debug.ok THEN ReadErr ELSE
         ReadOk([function_bodies |-> function_bodies.val,
                 function_relocations |-> function_relocations.val,
                 function_jt_offsets |-> function_jt_offsets.val,
                 function_frame_info |-> function_frame_info.val,
                 function_call_trampolines |-> function_call_trampolines.val,
                 dynamic_function_trampolines |-> dynamic_function_trampolines.val,
                 custom_sections |-> custom_sections.val,
                 custom_section_relocations |-> custom_section_relocations.val,
                 debug |-> debug.val],
                debug.rest)
    : debug \in {Borsh_deserialize_option(custom_section_relocations.rest)} })
    : custom_section_relocations \in {Borsh_deserialize_map(custom_sections.rest)} })
    : custom_sections \in {Borsh_deserialize_map(dynamic_function_trampolines.rest)} })
    : dynamic_function_trampolines \in
          {Borsh_deserialize_map(function_call_trampolines.rest)} })
    : function_call_trampolines \in {Borsh_deserialize_map(function_frame_info.rest)} })
    : function_frame_info \in {Borsh_deserialize_map(v.rest)} })
    : function_jt_offsets \in {bincode_deserialize_map(v.val)} })
    : v \in {Borsh_deserialize_vec(function_relocations.rest)} })
    : function_relocations \in {Borsh_deserialize_map(function_bodies.rest)} })
    : function_bodies \in {Borsh_deserialize_map(buf)} })

---------------------------------------------------------------------------
(* Module descriptors and serializable modules                             *)

I32I32_I32 == FunctionType_new(<<"I32", "I32">>, <<"I32">>)
Unit_I32I64 == FunctionType_new(<<>>, <<"I32", "I64">>)

\* Extern types as the imports of a module declare them.
ExternType_Function(ty) == [kind |-> "function", sig |-> ty]
ExternType_Memory(minimum, maximum) ==
    [kind |-> "memory", minimum |-> minimum, maximum |-> maximum]
ExternType_Table(ty, minimum, maximum) ==
    [kind |-> "table", ty |-> ty, minimum |-> minimum, maximum |-> maximum]
ExternType_Global(ty, mutability) ==
    [kind |-> "global", ty |-> ty, mutability |-> mutability]

\* An import is named by (module name, field name); the names are numbered.
ImportType(module, field, ty) == [module |-> module, field |-> field, ty |-> ty]

\* The module descriptor (wasmer_runtime::Module): its signatures in
\* signature-index order, its imports, the sizes of the memory and the table
\* it defines (in cells), its element segments and whether it has a start
\* function.
ModuleInfo(signatures, imports, table_elements, start_func) ==
    [signatures |-> signatures, imports |-> imports,
     memory_cells |-> 2, table_cells |-> 2,
     table_elements |-> table_elements, start_func |-> start_func]

\* An element or data segment: where it goes and what it holds.
Segment(offset, data) == [offset |-> offset, data |-> data]

\* The descriptors the model loads. The first is the module of the test
\* native_function_works_for_wasm: one signature, one imported function.
ModuleInfoTable ==
    << ModuleInfo(<<I32I32_I32>>,
                  <<ImportType(1, 1, ExternType_Function(I32I32_I32))>>,
                  <<>>, FALSE),
       ModuleInfo(<<>>, <<>>, <<Segment(0, <<1>>)>>, TRUE),
       ModuleInfo(<<Unit_I32I64, I32I32_I32, Unit_I32I64>>,
                  <<ImportType(1, 2, ExternType_Memory(1, Some(2)))>>,
                  <<Segment(0, <<1>>), Segment(2, <<1>>)>>, TRUE),
       ModuleInfo(<<I32I32_I32>>,
                  <<ImportType(1, 1, ExternType_Global("I32", "Const"))>>,
                  <<Segment(1, <<1, 1>>), Segment(0, <<1>>)>>, FALSE),
       ModuleInfo(<<I32I32_I32>>,
                  <<ImportType(2, 1, ExternType_Table("FuncRef", 1, None))>>,
                  <<>>, TRUE) >>

ModuleInfos == {ModuleInfoTable[i] : i \in 1..Len(ModuleInfoTable)}

\* serde writes the descriptor as a self-contained value; the model numbers
\* the descriptors it knows.
ModuleInfo_serialize(m) ==
    <<CHOOSE i \in 1..Len(ModuleInfoTable) : ModuleInfoTable[i] = m>>

ModuleInfo_deserialize(buf) ==
    IF buf = <<>> \/ Head(buf) \notin 1..Len(ModuleInfoTable)
    THEN ReadErr
    ELSE ReadOk(ModuleInfoTable[Head(buf)], Tail(buf))

Features_serialize(f) == <<IF f.bulk_memory THEN 1 ELSE 0>>

Features_deserialize(buf) ==
    IF buf = <<>> \/ Head(buf) \notin {0, 1}
    THEN ReadErr
    ELSE ReadOk([bulk_memory |-> Head(buf) = 1], Tail(buf))

\* OwnedDataInitializer: the offset, then the bytes.
DataInitializers_serialize(inits) ==
    Borsh_serialize_map([i \in 1..Len(inits) |-> <<inits[i].offset>> \o inits[i].data])

DataInitializers_deserialize(buf) ==
    Only({ IF ~r.ok \/ \E i \in 1..Len(r.val) : r.val[i] = <<>>
           THEN ReadErr
           ELSE ReadOk([i \in 1..Len(r.val) |->
                           Segment(Head(r.val[i]), Tail(r.val[i]))], r.rest)
           : r \in {Borsh_deserialize_map(buf)} })

\* SerializableModule as CompiledModule::new builds it.
SerializableModule(compilation, module, features, data_initializers) ==
    [compilation |-> compilation, module |-> module, features |-> features,
     data_initializers |-> data_initializers]

\* The derived serialization of SerializableModule: its fields in order.
SerializableModule_serialize(sm) ==
    SerializableCompilation_serialize(sm.compilation)
        \o ModuleInfo_serialize(sm.module)
        \o Features_serialize(sm.features)
        \o DataInitializers_serialize(sm.data_initializers)

SerializableModule_deserialize(bytes) ==
  Only({ IF ~compilation.ok THEN ReadErr ELSE
  Only({ IF ~module.ok THEN ReadErr ELSE
  Only({ IF ~features.ok THEN ReadErr ELSE
  Only({ IF ~data_initializers.ok THEN ReadErr ELSE
         ReadOk(SerializableModule(compilation.val, module.val, features.val,
                                   data_initializers.val),
                data_initializers.rest)
    : data_initializers \in {DataInitializers_deserialize(features.rest)} })
    : features \in {Features_deserialize(module.rest)} })
    : module \in {ModuleInfo_deserialize(compilation.rest)} })
    : compilation \in {SerializableCompilation_deserialize(bytes)} })

---------------------------------------------------------------------------
(* The JIT loader: CompiledModule (engine-jit module.rs)                   *)

\* The engine as the loader sees it: the code memory, the signature registry
\* and the steps taken on them so far by the running operation.
JITEngineInner(code_memory, signatures, steps) ==
    [code |-> code_memory, sigs |-> signatures, log |-> steps]

\* A region of code memory: what it holds, whether the linker has bound it
\* and whether it is still writable or already executable.
Region(kind, bytes) ==
    [kind |-> kind, bytes |-> bytes, relocs |-> <<>>, linked |-> FALSE,
     state |-> "writable"]

\* JITEngineInner::allocate: copies the function bodies and the trampolines
\* into fresh writable regions and returns the pointers to them, or fails.
JITEngineInner_allocate(jit, function_bodies, function_call_trampolines, dynamic_function_trampolines, alloc_ok) ==
    LET base == Len(jit.code)
        nf == Len(function_bodies)
        nc == Len(function_call_trampolines)
        nd == Len(dynamic_function_trampolines)
        regions ==
            [i \in 1..nf |-> Region("function", function_bodies[i])]
              \o [i \in 1..nc |-> Region("call_trampoline", function_call_trampolines[i])]
              \o [i \in 1..nd |->
                    Region("dynamic_trampoline", dynamic_function_trampolines[i])]
    IN  IF ~alloc_ok
        THEN [res |-> Err("CompileError::Resource"),
              jit |-> [jit EXCEPT !.log = Append(@, "allocate")],
              finished_functions |-> <<>>,
              finished_dynamic_function_trampolines |-> <<>>]
        ELSE [res |-> Ok,
              jit |-> [jit EXCEPT !.code = @ \o regions, !.log = Append(@, "allocate")],
              finished_functions |-> [i \in 1..nf |-> base + i],
              finished_dynamic_function_trampolines |->
                  [i \in 1..nd |-> base + nf + nc + i]]

\* link_module: applies the relocations of every function to its region.
link_module(jit, finished_functions, function_relocations) ==
    [jit EXCEPT
        !.code = [p \in 1..Len(jit.code) |->
                    IF \E i \in 1..Len(finished_functions) : finished_functions[i] = p
                    THEN LET i == CHOOSE i \in 1..Len(finished_functions) :
                                      finished_functions[i] = p
                         IN  [jit.code[p] EXCEPT
                                !.linked = TRUE,
                                !.relocs = IF i <= Len(function_relocations)
                                           THEN function_relocations[i] ELSE <<>>]
                    ELSE jit.code[p]],
        !.log = Append(@, "link")]

\* module.signatures.values().map(|sig| signature_registry.register(sig)):
\* the ids are collected in signature-index order.
RECURSIVE register_all(_, _, _)
register_all(reg, signatures, acc) ==
    IF signatures = <<>> THEN [sigs |-> reg, signatures |-> acc]
    ELSE LET r == register_signature(reg, Head(signatures))
         IN  register_all(r.sigs, Tail(signatures), Append(acc, r.signature))

\* JITEngineInner::publish_compiled_code: every region becomes executable.
JITEngineInner_publish_compiled_code(jit) ==
    [jit EXCEPT
        !.code = [p \in 1..Len(jit.code) |-> [jit.code[p] EXCEPT !.state = "executable"]],
        !.log = Append(@, "publish")]

\* Mutex::new(None)
Mutex_new(value) == [owner |-> 0, value |-> value]

\* A result of the loader: the outcome, the module if there is one, the engine.
Loaded(res, compiled, jit) == [res |-> res, compiled |-> compiled, jit |-> jit]

\* CompiledModule::from_parts with the publication moved before the link.
CompiledModule_from_parts_PublishFirst(jit_compiler, serializable, alloc_ok) ==
    LET a == JITEngineInner_allocate(jit_compiler,
                 serializable.compilation.function_bodies,
                 serializable.compilation.function_call_trampolines,
                 serializable.compilation.dynamic_function_trampolines, alloc_ok)
        published == JITEngineInner_publish_compiled_code(a.jit)
        linked == link_module(published, a.finished_functions,
                              serializable.compilation.function_relocations)
        r == register_all(linked.sigs, serializable.module.signatures, <<>>)
    IN  IF a.res.kind # "ok" THEN Loaded(a.res, None, a.jit)
        ELSE Loaded(Ok,
                    Some([serializable |-> serializable,
                          finished_functions |-> a.finished_functions,
                          finished_dynamic_function_trampolines |->
                              a.finished_dynamic_function_trampolines,
                          signatures |-> r.signatures,
                          frame_info_registration |-> Mutex_new(None)]),
                    [linked EXCEPT !.sigs = r.sigs, !.log = Append(@, "register")])

\* CompiledModule::from_parts that returns without publishing the code.
CompiledModule_from_parts_NoPublish(jit_compiler, serializable, alloc_ok) ==
    LET a == JITEngineInner_allocate(jit_compiler,
                 serializable.compilation.function_bodies,
                 serializable.compilation.function_call_trampolines,
                 serializable.compilation.dynamic_function_trampolines, alloc_ok)
        linked == link_module(a.jit, a.finished_functions,
                              serializable.compilation.function_relocations)
        r == register_all(linked.sigs, serializable.module.signatures, <<>>)
    IN  IF a.res.kind # "ok" THEN Loaded(a.res, None, a.jit)
        ELSE Loaded(Ok,
                    Some([serializable |-> serializable,
                          finished_functions |-> a.finished_functions,
                          finished_dynamic_function_trampolines |->
                              a.finished_dynamic_function_trampolines,
                          signatures |-> r.signatures,
                          frame_info_registration |-> Mutex_new(None)]),
                    [linked EXCEPT !.sigs = r.sigs, !.log = Append(@, "register")])

\* CompiledModule::from_parts that goes on after a failed allocation.
CompiledModule_from_parts_IgnoresAllocError(jit_compiler, serializable, alloc_ok) ==
    LET a == JITEngineInner_allocate(jit_compiler,
                 serializable.compilation.function_bodies,
                 serializable.compilation.function_call_trampolines,
                 serializable.compilation.dynamic_function_trampolines, alloc_ok)
        linked == link_module(a.jit, a.finished_functions,
                              serializable.compilation.function_relocations)
        r == register_all(linked.sigs, serializable.module.signatures, <<>>)
        registered == [linked EXCEPT !.sigs = r.sigs, !.log = Append(@, "register")]
        published == JITEngineInner_publish_compiled_code(registered)
    IN  Loaded(a.res,
               IF a.res.kind # "ok" THEN None
               ELSE Some([serializable |-> serializable,
                          finished_functions |-> a.finished_functions,
                          finished_dynamic_function_trampolines |->
                              a.finished_dynamic_function_trampolines,
                          signatures |-> r.signatures,
                          frame_info_registration |-> Mutex_new(None)]),
               published)

\* CompiledModule::from_parts
CompiledModule_from_parts(jit_compiler, serializable, alloc_ok) ==
    LET a == JITEngineInner_allocate(jit_compiler,
                 serializable.compilation.function_bodies,
                 serializable.compilation.function_call_trampolines,
                 serializable.compilation.dynamic_function_trampolines, alloc_ok)
        linked == link_module(a.jit, a.finished_functions,
                              serializable.compilation.function_relocations)
        r == register_all(linked.sigs, serializable.module.signatures, <<>>)
        registered == [linked EXCEPT !.sigs = r.sigs, !.log = Append(@, "register")]
        published == JITEngineInner_publish_compiled_code(registered)
    IN  IF a.res.kind # "ok" THEN Loaded(a.res, None, a.jit)
        ELSE Loaded(Ok,
                    Some([serializable |-> serializable,
                          finished_functions |-> a.finished_functions,
                          finished_dynamic_function_trampolines |->
                              a.finished_dynamic_function_trampolines,
                          signatures |-> r.signatures,
                          frame_info_registration |-> Mutex_new(None)]),
                    published)

\* CompiledModule::new: translate, compile, build the SerializableModule,
\* from_parts. A wasm binary is described by what the translation and the
\* compiler make of it.
CompiledModule_new(jit, data, alloc_ok) ==
    LET compiling == [jit EXCEPT !.log = Append(@, "compile")]
    IN  IF ~data.compiles
        THEN Loaded(Err("CompileError::Wasm"), None, compiling)
        ELSE CompiledModule_from_parts(compiling, data.serializable, alloc_ok)

\* CompiledModule::serialize
CompiledModule_serialize(compiled) == SerializableModule_serialize(compiled.serializable)

\* CompiledModule::deserialize
CompiledModule_deserialize(jit, bytes, alloc_ok) ==
    Only({ IF ~serializable.ok
           THEN Loaded(Err("DeserializeError::CorruptedBinary"), None, jit)
           ELSE Only({ IF r.res.kind = "ok" THEN r
                       ELSE Loaded(Err("DeserializeError::Compiler"), None, r.jit)
                       : r \in {CompiledModule_from_parts(jit, serializable.val, alloc_ok)} })
           : serializable \in {SerializableModule_deserialize(bytes)} })


---------------------------------------------------------------------------
(* Module (api module.rs)                                                  *)

\* Module::validate: the engine validates the binary.
Module_validate(jit, binary) ==
    [res |-> IF binary.valid THEN Ok ELSE Err("CompileError::Validate"),
     jit |-> [jit EXCEPT !.log = Append(@, "validate")]]

\* Module::compile
Module_compile(jit, binary, alloc_ok) == CompiledModule_new(jit, binary, alloc_ok)

\* Module::from_binary_unchecked
Module_from_binary_unchecked(jit, binary, alloc_ok) ==
    Module_compile(jit, binary, alloc_ok)

\* Module::from_binary that compiles whatever validate said.
Module_from_binary_IgnoresValidation(jit, binary, alloc_ok) ==
    Module_from_binary_unchecked(Module_validate(jit, binary).jit, binary, alloc_ok)

\* Module::from_binary
Module_from_binary(jit, binary, alloc_ok) ==
    LET v == Module_validate(jit, binary)
    IN  IF v.res.kind # "ok" THEN Loaded(v.res, None, v.jit)
        ELSE Module_from_binary_unchecked(v.jit, binary, alloc_ok)

\* Module::new: bytes that start with "\0asm" go to from_binary; other bytes
\* are parsed as text when the build has the wat feature, and what the parser
\* returns is compiled unchecked.
Module_new(jit, bytes, wat_feature, alloc_ok) ==
    IF bytes.form = "wasm" THEN Module_from_binary(jit, bytes, alloc_ok)
    ELSE IF wat_feature
    THEN IF bytes.form = "wat"
         THEN Module_from_binary_unchecked(jit, bytes, alloc_ok)
         ELSE Loaded(Err("CompileError::Wasm"), None, jit)
    ELSE Loaded(Err("CompileError::Validate"), None, jit)

\* Module::serialize
Module_serialize(module) == CompiledModule_serialize(module.compiled)

\* Module::deserialize
Module_deserialize(jit, bytes, alloc_ok) == CompiledModule_deserialize(jit, bytes, alloc_ok)

\* Module::from_compiled_module
Module_from_compiled_module(store, compiled) == [store |-> store, compiled |-> compiled]

\* The compilation of a module with nf local functions: every map holds
\* entries of its own, told apart by their first word.
Compilation(nf, module, rich) ==
    [function_bodies |-> [i \in 1..nf |-> <<10 + i, 0>>],
     function_relocations |-> [i \in 1..nf |-> IF rich THEN <<20 + i>> ELSE <<>>],
     function_jt_offsets |-> [i \in 1..nf |-> IF rich THEN <<30, i>> ELSE <<>>],
     function_frame_info |-> [i \in 1..nf |-> <<40 + i>>],
     function_call_trampolines |-> [k \in 1..Len(module.signatures) |-> <<50 + k>>],
     dynamic_function_trampolines |->
         [k \in 1..Cardinality({j \in 1..Len(module.imports) :
                                   module.imports[j].ty.kind = "function"}) |-> <<60 + k>>],
     custom_sections |-> IF rich THEN <<<<70>>>> ELSE <<>>,
     custom_section_relocations |-> IF rich THEN <<<<71, 72>>>> ELSE <<>>,
     debug |-> IF rich THEN Some(0) ELSE None]

LocalFunctionCounts == {0, 2}

\* The serializable modules the loader is given.
SerializableModules ==
    { SerializableModule(Compilation(nf, ModuleInfoTable[c[1]], c[2]),
                         ModuleInfoTable[c[1]], [bulk_memory |-> c[2]], c[3]) :
        nf \in LocalFunctionCounts,
        c \in { <<1, FALSE, <<>> >>,
                <<2, TRUE, <<Segment(0, <<7>>)>> >>,
                <<3, FALSE, <<Segment(0, <<7>>), Segment(2, <<8>>)>> >> } }

\* Wasm binaries, as the engine sees them: whether they validate, whether
\* they compile and to what. Invalid binaries all look alike.
Binaries ==
    { [valid |-> TRUE, compiles |-> TRUE, serializable |-> sm] : sm \in SerializableModules }
    \cup { [valid |-> FALSE, compiles |-> c,
            serializable |-> SerializableModule(Compilation(0, ModuleInfoTable[2], FALSE),
                                ModuleInfoTable[2], [bulk_memory |-> FALSE], <<>>)] :
            c \in BOOLEAN }

\* What Module::new is handed: a wasm binary, the text of one, or neither.
SourceBytes ==
    { [form |-> f, valid |-> b.valid, compiles |-> b.compiles,
       serializable |-> b.serializable] : f \in {"wasm", "wat", "other"}, b \in Binaries }

\* The magic header and the version an artifact is to begin with.
MagicHeader == <<87, 74, 73, 84, 1>>

\* The bytes begin with the magic header and the version.
StartsWithHeader(bytes) ==
    /\ Len(bytes) >= Len(MagicHeader)
    /\ SubSeq(bytes, 1, Len(MagicHeader)) = MagicHeader

\* The bytes of a module whose inner buffer of function_jt_offsets carries
\* one more word after the map.
SerializeWithTrailingWord(sm) ==
    LET c == sm.compilation
        front == Borsh_serialize_map(c.function_bodies)
                     \o Borsh_serialize_map(c.function_relocations)
        v == bincode_serialize_map(c.function_jt_offsets)
        b == SerializableModule_serialize(sm)
    IN  front \o Borsh_serialize_vec(v \o <<0>>) \o Drop(b, Len(front) + 1 + Len(v))

\* What deserialize is handed: the bytes serialize wrote, those bytes cut
\* short, with another first word, behind a magic header, with a trailing
\* word in the inner buffer, and no bytes at all.
SerializedInputs ==
    UNION { LET b == SerializableModule_serialize(sm)
            IN  { b, SubSeq(b, 1, Len(b) - 1), <<Head(b) + 1>> \o Tail(b),
                  MagicHeader \o b, SerializeWithTrailingWord(sm) } :
            sm \in SerializableModules }
      \cup { <<>> }

\* The engine of the store, before an operation: its log is empty.
Engine == JITEngineInner(code, sigs, <<>>)

\* The effect of a load on the state: the engine is as the loader left it and
\* a module that was loaded is kept.
Load(op, input, r) ==
    /\ code' = r.jit.code
    /\ sigs' = r.jit.sigs
    /\ modules' = IF r.res.kind = "ok"
                  THEN Append(modules,
                              Module_from_compiled_module(1, CHOOSE c \in r.compiled : TRUE))
                  ELSE modules
    /\ last' = [op |-> op, input |-> input, res |-> r.res, log |-> r.jit.log,
                pre_code |-> code, pre_sigs |-> sigs]
    /\ UNCHANGED <<frames, threads, instances>>
    /\ UNCHANGED externVars

ModuleNew ==
    /\ Len(modules) < MaxModules
    /\ \E bytes \in SourceBytes, wat_feature \in BOOLEAN, alloc_ok \in BOOLEAN :
         Load("Module::new", bytes, Module_new(Engine, bytes, wat_feature, alloc_ok))

ModuleFromBinary ==
    /\ Len(modules) < MaxModules
    /\ \E binary \in Binaries, alloc_ok \in BOOLEAN :
         Load("Module::from_binary", binary, Module_from_binary(Engine, binary, alloc_ok))

ModuleFromBinaryUnchecked ==
    /\ Len(modules) < MaxModules
    /\ \E binary \in Binaries, alloc_ok \in BOOLEAN :
         Load("Module::from_binary_unchecked", binary,
              Module_from_binary_unchecked(Engine, binary, alloc_ok))

ModuleDeserialize ==
    /\ Len(modules) < MaxModules
    /\ \E bytes \in SerializedInputs, alloc_ok \in BOOLEAN :
         Load("Module::deserialize", bytes, Module_deserialize(Engine, bytes, alloc_ok))

ModuleSerialize ==
    /\ \E i \in 1..Len(modules) :
         last' = [op |-> "Module::serialize", obj |-> i,
                  res |-> Ok, bytes |-> Module_serialize(modules[i])]
    /\ UNCHANGED <<modules, code, sigs, frames, threads, instances>>
    /\ UNCHANGED externVars


---------------------------------------------------------------------------
(* Instantiation: CompiledModule::instantiate, finish_instantiation        *)

\* A Resolver maps (module name, field name) to an extern or to nothing; the
\* model keeps the type of the extern it provides under each name.
Resolver_resolve(resolver, module, field) ==
    {e.ty : e \in {x \in resolver : x.module = module /\ x.field = field}}

\* The maximum an extern has fits the maximum the import declares.
Maximum_fits(ex, im) ==
    \A im_max \in im : \E ex_max \in ex : ex_max <= im_max

\* Whether the type of the extern the resolver returned is compatible with
\* the type the import declares.
is_compatible(ex, im) ==
    /\ ex.kind = im.kind
    /\ CASE im.kind = "function" -> ex.sig = im.sig
         [] im.kind = "memory" ->
               ex.minimum >= im.minimum /\ Maximum_fits(ex.maximum, im.maximum)
         [] im.kind = "table" ->
               /\ ex.ty = im.ty
               /\ ex.minimum >= im.minimum /\ Maximum_fits(ex.maximum, im.maximum)
         [] im.kind = "global" -> ex.ty = im.ty /\ ex.mutability = im.mutability

LinkError_UnknownImport(module, field) ==
    [kind |-> "UnknownImport", module |-> module, field |-> field]
LinkError_IncompatibleImportType(module, field) ==
    [kind |-> "IncompatibleImportType", module |-> module, field |-> field]
LinkError_Resource == [kind |-> "Resource", module |-> 0, field |-> 0]

\* resolve_imports: the imports are resolved in order; the first one the
\* resolver does not provide, or provides with an incompatible type, is the
\* error.
RECURSIVE resolve_imports(_, _, _)
resolve_imports(imports, resolver, acc) ==
    IF imports = <<>> THEN [res |-> Ok, imports |-> acc]
    ELSE LET im == Head(imports)
             found == Resolver_resolve(resolver, im.module, im.field)
         IN  IF found = {}
             THEN [res |-> [kind |-> "err",
                            msg |-> LinkError_UnknownImport(im.module, im.field)],
                   imports |-> <<>>]
             ELSE IF ~is_compatible(CHOOSE ex \in found : TRUE, im.ty)
             THEN [res |-> [kind |-> "err",
                            msg |-> LinkError_IncompatibleImportType(im.module, im.field)],
                   imports |-> <<>>]
             ELSE resolve_imports(Tail(imports), resolver,
                                  Append(acc, CHOOSE ex \in found : TRUE))

\* The error of a failed link reported as a start error.
InstantiationError_Link_AsStart(e) == [kind |-> "err", msg |-> [error |-> "Start", of |-> e]]

InstantiationError_Link(e) == [kind |-> "err", msg |-> [error |-> "Link", of |-> e]]
InstantiationError_Start(e) == [kind |-> "err", msg |-> [error |-> "Start", of |-> e]]
RuntimeError_from_trap(trap) == [runtime_error |-> trap]

\* A segment fits a memory or a table of the given number of cells.
Segment_in_bounds(seg, cells) == seg.offset + Len(seg.data) <= Len(cells)

\* The cells after the segment was written.
Segment_write(seg, cells) ==
    [a \in 1..Len(cells) |->
        IF a - 1 >= seg.offset /\ a - 1 < seg.offset + Len(seg.data)
        THEN seg.data[a - seg.offset] ELSE cells[a]]

\* initialize_tables / initialize_memories: the segments are written in
\* order; the first that is out of bounds traps and ends the initialization.
RECURSIVE initialize(_, _)
initialize(segments, cells) ==
    IF segments = <<>> THEN [trap |-> None, cells |-> cells]
    ELSE IF ~Segment_in_bounds(Head(segments), cells)
    THEN [trap |-> Some("OutOfBounds"), cells |-> cells]
    ELSE initialize(Tail(segments), Segment_write(Head(segments), cells))

\* InstanceHandle::new: the instance with its memories and tables as the
\* tunables created them; nothing is initialized and nothing has run.
InstanceHandle_new(module, imports, signatures) ==
    [module |-> module, imports |-> imports, signatures |-> signatures,
     memory |-> [a \in 1..module.memory_cells |-> 0],
     table |-> [a \in 1..module.table_cells |-> 0],
     finish_calls |-> 0, start_calls |-> 0]

\* InstanceHandle::finish_instantiation: without bulk memory the bounds of
\* all segments are checked before anything is written; then the tables and
\* the memories are initialized; then the start function is invoked.
InstanceHandle_finish_instantiation(handle, is_bulk_memory, data_initializers, start_traps) ==
    LET elements == handle.module.table_elements
        called == [handle EXCEPT !.finish_calls = @ + 1]
        t == initialize(elements, handle.table)
        m == initialize(data_initializers, handle.memory)
        initialized == [called EXCEPT !.table = t.cells, !.memory = m.cells]
    IN  IF /\ ~is_bulk_memory
           /\ \/ \E i \in 1..Len(elements) :
                    ~Segment_in_bounds(elements[i], handle.table)
              \/ \E i \in 1..Len(data_initializers) :
                    ~Segment_in_bounds(data_initializers[i], handle.memory)
        THEN [trap |-> Some("OutOfBounds"), handle |-> called]
        ELSE IF t.trap # None
        THEN [trap |-> t.trap, handle |-> [called EXCEPT !.table = t.cells]]
        ELSE IF m.trap # None
        THEN [trap |-> m.trap, handle |-> initialized]
        ELSE IF ~handle.module.start_func
        THEN [trap |-> None, handle |-> initialized]
        ELSE [trap |-> IF start_traps THEN Some("Unreachable") ELSE None,
              handle |-> [initialized EXCEPT !.start_calls = @ + 1]]

\* CompiledModule::data_initializers
CompiledModule_data_initializers(compiled) == compiled.serializable.data_initializers

\* CompiledModule::finish_instantiation that asks for the bulk-memory policy
\* whatever the features of the module say.
CompiledModule_finish_instantiation_AlwaysBulk(compiled, handle, start_traps) ==
    LET r == InstanceHandle_finish_instantiation(handle, TRUE,
                 CompiledModule_data_initializers(compiled), start_traps)
    IN  [res |-> IF r.trap = None THEN Ok
                 ELSE InstantiationError_Start(
                          RuntimeError_from_trap(CHOOSE trap \in r.trap : TRUE)),
         handle |-> r.handle]

\* CompiledModule::finish_instantiation that reports a trap as a link error.
CompiledModule_finish_instantiation_TrapAsLink(compiled, handle, start_traps) ==
    LET is_bulk_memory == compiled.serializable.features.bulk_memory
        r == InstanceHandle_finish_instantiation(handle, is_bulk_memory,
                 CompiledModule_data_initializers(compiled), start_traps)
    IN  [res |-> IF r.trap = None THEN Ok
                 ELSE InstantiationError_Link(CHOOSE trap \in r.trap : TRUE),
         handle |-> r.handle]

\* CompiledModule::finish_instantiation
CompiledModule_finish_instantiation(compiled, handle, start_traps) ==
    LET is_bulk_memory == compiled.serializable.features.bulk_memory
        r == InstanceHandle_finish_instantiation(handle, is_bulk_memory,
                 CompiledModule_data_initializers(compiled), start_traps)
    IN  [res |-> IF r.trap = None THEN Ok
                 ELSE InstantiationError_Start(
                          RuntimeError_from_trap(CHOOSE trap \in r.trap : TRUE)),
         handle |-> r.handle]

\* Mutex::lock that lets every thread in.
Mutex_lock_NoExclusion(mutex, t) == TRUE

\* Mutex::lock: a thread gets the lock when no thread holds it.
Mutex_lock(mutex, t) == mutex.owner = 0

\* info.is_some()
Option_is_some(info) == info # None

\* The threads of the model and what a thread is before it calls instantiate.
Threads == 1..NumThreads
ThreadIdle ==
    [pc |-> "idle", res |-> Idle, finish |-> Idle, resolver |-> {}, imports |-> <<>>,
     handle |-> 0, start_traps |-> FALSE, failed_at |-> ""]

\* The CompiledModule all threads instantiate.
TheModule == modules[1].compiled

\* The resolvers a module is instantiated with: one that provides nothing,
\* and for each import one that provides it as declared, one that provides it
\* under another field name, and ones that provide an extern of another type.
OtherTypes(ty) ==
    CASE ty.kind = "function" ->
            {ExternType_Function(Unit_I32I64), ExternType_Global("I32", "Const")}
      [] ty.kind = "memory" ->
            {ExternType_Memory(ty.minimum - 1, ty.maximum),
             ExternType_Memory(ty.minimum, None),
             ExternType_Memory(ty.minimum + 1, ty.maximum)}
      [] ty.kind = "table" ->
            {ExternType_Table(ty.ty, ty.minimum - 1, ty.maximum),
             ExternType_Table(ty.ty, ty.minimum, Some(ty.minimum))}
      [] ty.kind = "global" ->
            {ExternType_Global(ty.ty, "Var"), ExternType_Global("I64", ty.mutability)}

Resolvers(module) ==
    { {} }
    \cup UNION { { {ImportType(module.imports[i].module, module.imports[i].field, ty)} :
                     ty \in {module.imports[i].ty} \cup OtherTypes(module.imports[i].ty) }
                 \cup { {ImportType(module.imports[i].module,
                                    module.imports[i].field + 1, module.imports[i].ty)} } :
                 i \in 1..Len(module.imports) }


\* The first step of CompiledModule::instantiate with the error of the
\* resolution dropped.
CompiledModule_instantiate_imports_Unchecked(compiled, resolver) ==
    [res |-> Ok, imports |-> <<>>]

\* The first step of CompiledModule::instantiate: resolve_imports, its error
\* returned as InstantiationError::Link.
CompiledModule_instantiate_imports(compiled, resolver) ==
    LET r == resolve_imports(compiled.serializable.module.imports, resolver, <<>>)
    IN  IF r.res.kind = "ok" THEN r
        ELSE [res |-> InstantiationError_Link(r.res.msg), imports |-> <<>>]

\* register_frame_info of the engine: a new entry of the global registry.
register_frame_info(registry, module) ==
    [frames |-> Append(registry, [module |-> module]), registration |-> Len(registry) + 1]

\* The assignment to the guarded value, with the registration thrown away.
CompiledModule_register_frame_info_store_Forgets(registration) == None

\* *info = Some(register_frame_info(..))
CompiledModule_register_frame_info_store(registration) == Some(registration)

\* The frame-info registration of the module and the thread records, changed.
SetRegistration(owner, value) ==
    modules' = [modules EXCEPT ![1].compiled.frame_info_registration =
                                   [owner |-> owner, value |-> value]]
SetThread(t, rec) == threads' = [threads EXCEPT ![t] = rec]

\* instantiate, up to the creation of the memories, tables and globals.
InstantiateResolve(t) ==
    /\ threads[t].pc = "idle"
    /\ \E resolver \in Resolvers(TheModule.serializable.module) :
         LET r == CompiledModule_instantiate_imports(TheModule, resolver)
         IN  SetThread(t, [threads[t] EXCEPT
                             !.pc = IF r.res.kind = "ok" THEN "create" ELSE "done",
                             !.failed_at = IF r.res.kind = "ok" THEN "" ELSE "resolve",
                             !.res = r.res,
                             !.resolver = resolver,
                             !.imports = r.imports])
    /\ UNCHANGED <<modules, code, frames, instances, sigs, last>>
    /\ UNCHANGED externVars

\* tunables.create_memories / create_tables / create_globals
InstantiateCreate(t) ==
    /\ threads[t].pc = "create"
    /\ \E created \in BOOLEAN :
         SetThread(t, [threads[t] EXCEPT
                         !.pc = IF created THEN "lock" ELSE "done",
                         !.failed_at = IF created THEN "" ELSE "create",
                         !.res = IF created THEN Ok
                                 ELSE InstantiationError_Link(LinkError_Resource)])
    /\ UNCHANGED <<modules, code, frames, instances, sigs, last>>
    /\ UNCHANGED externVars

\* register_frame_info: self.frame_info_registration.lock()
RegisterFrameInfoLock(t) ==
    /\ threads[t].pc = "lock"
    /\ Mutex_lock(TheModule.frame_info_registration, t)
    /\ SetRegistration(t, TheModule.frame_info_registration.value)
    /\ SetThread(t, [threads[t] EXCEPT !.pc = "check"])
    /\ UNCHANGED <<code, frames, instances, sigs, last>>
    /\ UNCHANGED externVars

\* register_frame_info: if info.is_some() { return; }
RegisterFrameInfoCheck(t) ==
    /\ threads[t].pc = "check"
    /\ IF Option_is_some(TheModule.frame_info_registration.value)
       THEN /\ SetRegistration(0, TheModule.frame_info_registration.value)
            /\ SetThread(t, [threads[t] EXCEPT !.pc = "new"])
       ELSE /\ SetThread(t, [threads[t] EXCEPT !.pc = "register"])
            /\ UNCHANGED modules
    /\ UNCHANGED <<code, frames, instances, sigs, last>>
    /\ UNCHANGED externVars

\* register_frame_info: *info = Some(register_frame_info(..)), and the guard
\* is dropped.
RegisterFrameInfoRegister(t) ==
    /\ threads[t].pc = "register"
    /\ LET r == register_frame_info(frames, 1)
       IN  /\ frames' = r.frames
           /\ SetRegistration(0, CompiledModule_register_frame_info_store(r.registration))
    /\ SetThread(t, [threads[t] EXCEPT !.pc = "new"])
    /\ UNCHANGED <<code, instances, sigs, last>>
    /\ UNCHANGED externVars

\* InstanceHandle::new and the return of instantiate.
InstanceHandleNew(t) ==
    /\ threads[t].pc = "new"
    /\ \E built \in BOOLEAN :
         IF built
         THEN /\ instances' = Append(instances,
                      InstanceHandle_new(TheModule.serializable.module,
                                         threads[t].imports, TheModule.signatures))
              /\ SetThread(t, [threads[t] EXCEPT !.pc = "returned", !.res = Ok,
                                                 !.handle = Len(instances) + 1])
         ELSE /\ SetThread(t, [threads[t] EXCEPT
                      !.pc = "done", !.failed_at = "new",
                      !.res = InstantiationError_Start(RuntimeError_from_trap("Trap"))])
              /\ UNCHANGED instances
    /\ UNCHANGED <<modules, code, frames, sigs, last>>
    /\ UNCHANGED externVars

\* finish_instantiation on the handle instantiate returned.
FinishInstantiation(t) ==
    /\ threads[t].pc = "returned"
    /\ \E start_traps \in BOOLEAN :
         LET r == CompiledModule_finish_instantiation(
                      TheModule, instances[threads[t].handle], start_traps)
         IN  /\ instances' = [instances EXCEPT ![threads[t].handle] = r.handle]
             /\ SetThread(t, [threads[t] EXCEPT !.pc = "finished", !.finish = r.res,
                                                !.start_traps = start_traps])
    /\ UNCHANGED <<modules, code, frames, sigs, last>>
    /\ UNCHANGED externVars

---------------------------------------------------------------------------
(* The exports of an instance                                              *)

\* A descriptor with its function index space (imported functions first; the
\* signature index of every function) and its function exports.
ExportType(name, func) == [name |-> name, func |-> func]
ExportingModuleInfo(signatures, imports, funcs, exports) ==
    ModuleInfo(signatures, imports, <<>>, FALSE)
        @@ [functions |-> funcs, exports |-> exports]

NumImportedFuncs(module) ==
    Cardinality({j \in 1..Len(module.imports) : module.imports[j].ty.kind = "function"})

\* The type a module declares for an export.
ExportType_ty(module, export) == module.signatures[module.functions[export.func]]

\* The modules whose exports are used. The first is the module of the test
\* native_function_works_for_wasm: multiply imported, add and double_then_add
\* exported. The second declares one signature twice and exports functions
\* of three signature indices.
I32_I32 == FunctionType_new(<<"I32">>, <<"I32">>)
Unit_I32 == FunctionType_new(<<>>, <<"I32">>)
ExportingModuleTable ==
    << ExportingModuleInfo(<<I32I32_I32>>,
                           <<ImportType(1, 1, ExternType_Function(I32I32_I32))>>,
                           <<1, 1, 1>>,
                           <<ExportType("add", 2), ExportType("double_then_add", 3)>>),
       ExportingModuleInfo(<<Unit_I32, I32_I32, Unit_I32, I32I32_I32>>, <<>>,
                           <<2, 1, 3, 4>>,
                           <<ExportType("f", 1), ExportType("g", 2),
                             ExportType("h", 4)>>) >>

\* InstanceHandle::lookup of a function export: the body pointer of a
\* function the module defines, the shared signature id the instance holds
\* for the signature index of the function, and the vmctx of the instance.
InstanceHandle_lookup(handle, finished_functions, export) ==
    [address |-> finished_functions[export.func - NumImportedFuncs(handle.module)],
     vmctx |-> "instance",
     signature |-> handle.signatures[handle.module.functions[export.func]],
     kind |-> "Static"]

\* Instance::new: the exports of the module in order, each one the extern
\* made from what the handle looks up.
Instance_exports(store, handle, finished_functions) ==
    [k \in 1..Len(handle.module.exports) |->
        Function_from_export(store,
            InstanceHandle_lookup(handle, finished_functions, handle.module.exports[k]))]

\* The instance all exports come from, and its module.
TheInstance == instances[1]
TheExports == TheInstance.module.exports

\* Val::FuncRef(f)
Val_FuncRef(f) ==
    [ty |-> "FuncRef", v |-> f.exported.address, store |-> f.store,
     sig |-> f.exported.signature]

\* The indirect call of generated code: the element is fetched from the
\* table, and the callee is entered only if the element is in bounds, not
\* null and of the signature id of the call site.
call_indirect(table, index, sig_id) ==
    LET got == RuntimeTable_get(table, index)
    IN  IF got = None
        THEN [trap |-> Some("TableAccessOutOfBounds"), entered |-> None]
        ELSE IF Only(got).func_ptr = 0
        THEN [trap |-> Some("IndirectCallToNull"), entered |-> None]
        ELSE IF Only(got).type_index # sig_id
        THEN [trap |-> Some("BadSignature"), entered |-> None]
        ELSE [trap |-> None, entered |-> Some(Only(got).func_ptr)]

\* An exported function is stored into the table.
ExportTableSet ==
    /\ \E k \in 1..Len(TheExports), index \in 0..1 :
         LET r == Table_set(tables[1], index, Val_FuncRef(functions[k]))
         IN  /\ tables' = [tables EXCEPT ![1].elems = r.elems]
             /\ last' = [op |-> "Table::set", obj |-> k, index |-> index, res |-> r.res]
    /\ UNCHANGED <<globals, memories, functions, sigs>>
    /\ UNCHANGED loaderVars

\* Code of the instance runs a call_indirect whose call site names a
\* signature index of the module.
CallIndirect ==
    /\ \E site \in 1..Len(TheInstance.module.signatures), index \in 0..1 :
         LET r == call_indirect(tables[1], index, TheInstance.signatures[site])
         IN  last' = [op |-> "call_indirect", site |-> site, index |-> index,
                      sig_id |-> TheInstance.signatures[site],
                      trap |-> r.trap, entered |-> r.entered]
    /\ UNCHANGED <<globals, tables, memories, functions, sigs>>
    /\ UNCHANGED loaderVars

\* The host function the test imports: |a: i32, b: i32| a * b
multiply(a, b) == a * b

\* What the body of an exported function computes from its arguments: add
\* and double_then_add are the functions of the test; f, g and h are those of
\* the second module.
WasmBody(name, args) ==
    CASE name = "add" -> args[1] + args[2]
      [] name = "double_then_add" -> multiply(args[1], 2) + multiply(args[2], 2)
      [] name = "f" -> args[1] + 1
      [] name = "g" -> 7
      [] name = "h" -> args[1] - args[2]

Val_I32(n) == [ty |-> "I32", v |-> n, store |-> 0, sig |-> 0]

\* The integers handed to the exported functions; 4 and 6 are those of the
\* test.
NativeInts == {-1, 4, 6}
NativeArgLists == SeqsUpTo(NativeInts, 2)

\* Function::native::<Args, Rets>(): None unless the types of the function
\* are those of Args and Rets.
Function_native(f, args_ty, rets_ty) ==
    IF Function_ty(f) = FunctionType_new(args_ty, rets_ty) THEN Some(f) ELSE None

\* A typed call that passes the context before the arguments.
Func_call_CtxFirst(name, args) ==
    [res |-> Ok,
     rets |-> <<WasmBody(name, [k \in 1..Len(args) |-> IF k = 1 THEN 0 ELSE args[k - 1]])>>]

\* The typed call: the function pointer is called with the arguments and the
\* context, the returned struct is the result; no value array is used.
Func_call(name, args) == [res |-> Ok, rets |-> <<WasmBody(name, args)>>]

\* Function::call on an export: the callee computes from the arguments the
\* trampoline hands it.
Export_call(k, params) ==
    LET entry == Function_call(functions[k], params, Traps)
        body(callee_args) ==
            Returns(<<Val_I32(WasmBody(TheExports[k].name,
                                       [j \in 1..Len(callee_args) |-> callee_args[j].v]))>>)
    IN  IF entry.invoked = <<>> THEN entry
        ELSE Function_call(functions[k], params, body(entry.invoked[1]))

\* The embedder calls an export with a list of values.
ExportCall ==
    /\ \E k \in 1..Len(TheExports), args \in NativeArgLists :
         LET params == [j \in 1..Len(args) |-> Val_I32(args[j])]
             r == Export_call(k, params)
         IN  last' = [op |-> "Function::call", obj |-> k, args |-> args,
                      params |-> params, res |-> r.res, results |-> r.results]
    /\ UNCHANGED <<globals, tables, memories, functions, sigs>>
    /\ UNCHANGED loaderVars

\* The embedder gets the typed function of an export, for the types of the
\* arguments it has, and calls it.
NativeFuncCall ==
    /\ \E k \in 1..Len(TheExports), args \in NativeArgLists :
         LET native == Function_native(functions[k], [j \in 1..Len(args) |-> "I32"],
                                       <<"I32">>)
         IN  /\ native # None
             /\ LET r == Func_call(TheExports[k].name, args)
                IN  last' = [op |-> "NativeFunc::call", obj |-> k, args |-> args,
                             res |-> r.res, rets |-> r.rets]
    /\ UNCHANGED <<globals, tables, memories, functions, sigs>>
    /\ UNCHANGED loaderVars

\* The signature ids somebody holds: the extern objects and the module.
HeldIds ==
    {functions[k].exported.signature : k \in 1..Len(functions)}
        \cup {TheModule.signatures[i] : i \in 1..Len(TheModule.signatures)}

\* A host function is made after the instance, by Function::new or by
\* Function::new_dynamic: its signature is registered.
HostFunctionNew ==
    /\ Len(functions) < Len(TheExports) + MaxHostFuncs
    /\ \E ty \in FuncTypes, dynamic \in BOOLEAN :
         LET r == IF dynamic THEN Function_new_dynamic(1, ty, FALSE, sigs)
                  ELSE Function_new(1, ty, "null", sigs)
         IN  /\ functions' = Append(functions, r.function)
             /\ sigs' = r.sigs
             /\ last' = [op |-> "Function::new", obj |-> Len(functions) + 1, ty |-> ty,
                         pre_sigs |-> sigs, held |-> HeldIds]
    /\ UNCHANGED <<globals, tables, memories>>
    /\ UNCHANGED loaderVars

\* Another user of the engine releases an id it had registered. Nothing the
\* program holds is ever released (no Function, Module or instance releases
\* an id when it is dropped), so the count of an id in HeldIds stays
\* positive; the release of any other id may be the one of its last holder.
SignatureRelease ==
    /\ \E id \in LiveIds(sigs), last_holder \in BOOLEAN :
         /\ last_holder => id \notin HeldIds
         /\ sigs' = release_signature(sigs, id, last_holder)
         /\ last' = [op |-> "SignatureRegistry::release", obj |-> id,
                     last_holder |-> last_holder, pre_sigs |-> sigs]
    /\ UNCHANGED <<globals, tables, memories, functions>>
    /\ UNCHANGED loaderVars

---------------------------------------------------------------------------
(* Module::name and Module::set_name: the shared compiled artifact         *)

\* An Arc is known by the identity of its allocation. A Module handle holds
\* an Arc<CompiledModule>; the CompiledModule holds an Arc of the module
\* descriptor, which every instance made from it holds as well.
SharedArtifact(arc, name) ==
    [arc |-> arc, serializable |-> [module |-> [arc |-> arc, name |-> name]],
     frame_info_registration |-> Mutex_new(None)]

\* Arc::strong_count of the compiled artifact of a handle, and of its
\* descriptor: the artifact itself, every live instance made from it, and
\* the frame-info registry once the artifact is registered there.
CompiledHolders(handles, m) ==
    Cardinality({k \in 1..Len(handles) : handles[k].compiled.arc = m.compiled.arc})
DescriptorHolders(insts, registry, m) ==
    1 + Cardinality({k \in 1..Len(insts) :
                        insts[k].module.arc = m.compiled.serializable.module.arc})
      + Cardinality({k \in 1..Len(registry) :
                        registry[k].module.arc = m.compiled.serializable.module.arc})

\* Arc::get_mut that hands out the reference whoever else holds the Arc.
Arc_get_mut_Unchecked(strong_count) == TRUE

\* Arc::get_mut: Some only for the sole holder.
Arc_get_mut(strong_count) == strong_count = 1

\* Module::clone
Module_clone(m) == m

\* Module::name
Module_name(m) == m.compiled.serializable.module.name

\* Module::set_name: both get_mut are unwrapped; the name is written into
\* the descriptor, which every handle of the same artifact reads.
Module_set_name(handles, insts, registry, i, name) ==
    IF ~Arc_get_mut(CompiledHolders(handles, handles[i]))
    THEN [res |-> Panic("called Option::unwrap() on a None value"), modules |-> handles]
    ELSE IF ~Arc_get_mut(DescriptorHolders(insts, registry, handles[i]))
    THEN [res |-> Panic("called Option::unwrap() on a None value"), modules |-> handles]
    ELSE [res |-> Ok,
          modules |-> [k \in 1..Len(handles) |->
                         IF handles[k].compiled.arc = handles[i].compiled.arc
                         THEN [handles[k] EXCEPT
                                 !.compiled.serializable.module.name = Some(name)]
                         ELSE handles[k]]]

ModuleNames == {"foo", "bar"}

\* The calls of CompiledModule::instantiate in flight, a bag: of each call
\* its position and the handle it borrows. The caller that holds the mutex
\* of an artifact is the one call at "check" on a handle of that artifact.
Call(pc, module) == [pc |-> pc, module |-> module]
Borrowed == {c.module : c \in BagToSet(threads)}
Advance(c, pc) == threads' = (threads (-) SetToBag({c})) (+) SetToBag({Call(pc, c.module)})

ModuleClone ==
    /\ Len(modules) <= MaxHandles
    /\ \E i \in 1..Len(modules) :
         /\ modules' = Append(modules, Module_clone(modules[i]))
         /\ last' = [op |-> "Module::clone", obj |-> i]
    /\ UNCHANGED <<code, frames, threads, instances, sigs>>
    /\ UNCHANGED externVars

\* A handle is dropped; no call borrows it.
ModuleDrop ==
    /\ Len(modules) > 1
    /\ Len(modules) \notin Borrowed
    /\ modules' = SubSeq(modules, 1, Len(modules) - 1)
    /\ last' = [op |-> "drop(Module)", obj |-> Len(modules)]
    /\ UNCHANGED <<code, frames, threads, instances, sigs>>
    /\ UNCHANGED externVars

\* The frame-info registration of an artifact, changed: every handle of the
\* artifact reads the same mutex.
SetArtifactRegistration(arc, owner, value) ==
    modules' = [k \in 1..Len(modules) |->
                   IF modules[k].compiled.arc = arc
                   THEN [modules[k] EXCEPT !.compiled.frame_info_registration =
                                               [owner |-> owner, value |-> value]]
                   ELSE modules[k]]

\* instantiate is called on a handle; the artifact imports nothing, so
\* resolve_imports succeeds; the creation of its memories, tables and globals
\* succeeds or instantiate returns a Link error with nothing changed.
ModuleInstantiate ==
    /\ Len(instances) + BagCardinality(threads) < MaxInstances
    /\ \E i \in 1..Len(modules), created \in BOOLEAN :
         /\ threads' = IF created THEN threads (+) SetToBag({Call("lock", i)})
                       ELSE threads
         /\ last' = [op |-> "CompiledModule::instantiate",
                     res |-> IF created THEN Ok
                             ELSE InstantiationError_Link(LinkError_Resource)]
    /\ UNCHANGED <<modules, code, frames, instances, sigs>>
    /\ UNCHANGED externVars

\* register_frame_info: self.frame_info_registration.lock()
ModuleRegisterFrameInfoLock ==
    /\ \E c \in BagToSet(threads) :
         /\ c.pc = "lock"
         /\ Mutex_lock(modules[c.module].compiled.frame_info_registration, 1)
         /\ SetArtifactRegistration(modules[c.module].compiled.arc, 1,
                modules[c.module].compiled.frame_info_registration.value)
         /\ Advance(c, "check")
    /\ last' = [op |-> "Mutex::lock"]
    /\ UNCHANGED <<code, frames, instances, sigs>>
    /\ UNCHANGED externVars

\* register_frame_info: if info.is_some() { return; }, else the frame info is
\* registered, the registry takes a clone of the descriptor Arc and the
\* artifact keeps the registration; the guard is dropped.
ModuleRegisterFrameInfo ==
    /\ \E c \in BagToSet(threads) :
         /\ c.pc = "check"
         /\ LET compiled == modules[c.module].compiled
                r == register_frame_info(frames, compiled.serializable.module)
            IN  IF Option_is_some(compiled.frame_info_registration.value)
                THEN /\ SetArtifactRegistration(compiled.arc, 0,
                                                compiled.frame_info_registration.value)
                     /\ UNCHANGED frames
                ELSE /\ frames' = r.frames
                     /\ SetArtifactRegistration(compiled.arc, 0,
                            CompiledModule_register_frame_info_store(r.registration))
         /\ Advance(c, "new")
    /\ last' = [op |-> "CompiledModule::register_frame_info"]
    /\ UNCHANGED <<code, instances, sigs>>
    /\ UNCHANGED externVars

\* InstanceHandle::new with a clone of the descriptor Arc, and the return of
\* instantiate: the instance, or the trap as a Start error and no instance.
ModuleInstanceHandleNew ==
    /\ \E c \in BagToSet(threads), built \in BOOLEAN :
         /\ c.pc = "new"
         /\ instances' =
              IF built
              THEN Append(instances,
                          [module |-> modules[c.module].compiled.serializable.module])
              ELSE instances
         /\ last' = [op |-> "InstanceHandle::new",
                     res |-> IF built THEN Ok
                             ELSE InstantiationError_Start(RuntimeError_from_trap("Trap"))]
         /\ threads' = threads (-) SetToBag({c})
    /\ UNCHANGED <<modules, code, frames, sigs>>
    /\ UNCHANGED externVars

\* An instance is dropped.
InstanceDrop ==
    /\ instances # <<>>
    /\ instances' = SubSeq(instances, 1, Len(instances) - 1)
    /\ last' = [op |-> "drop(Instance)", obj |-> Len(instances)]
    /\ UNCHANGED <<modules, code, frames, threads, sigs>>
    /\ UNCHANGED externVars

\* set_name takes the handle by exclusive reference: no call borrows it.
ModuleSetName ==
    /\ \E i \in 1..Len(modules) \ Borrowed, name \in ModuleNames :
         LET r == Module_set_name(modules, instances, frames, i, name)
         IN  /\ modules' = r.modules
             /\ last' = [op |-> "Module::set_name", obj |-> i, name |-> name,
                         res |-> r.res, pre |-> modules,
                         sole |-> /\ CompiledHolders(modules, modules[i]) = 1
                                  /\ DescriptorHolders(instances, frames, modules[i]) = 1]
    /\ UNCHANGED <<code, frames, threads, instances, sigs>>
    /\ UNCHANGED externVars

---------------------------------------------------------------------------
\* Nothing has been loaded or instantiated.
InitLoader ==
    /\ modules = <<>>
    /\ code = <<>>
    /\ frames = <<>>
    /\ threads = <<>>
    /\ instances = <<>>

InitCommon ==
    /\ InitLoader
    /\ globals = <<>>
    /\ tables = <<>>
    /\ memories = <<>>
    /\ functions = <<>>
    /\ sigs = <<>>
    /\ last = Idle

NextGlobal == GlobalNew \/ GlobalSet

SpecGlobal == InitCommon /\ [][NextGlobal]_vars

NextTable == TableNew \/ TableSet \/ TableGrow \/ TableCopy

SpecTable == InitCommon /\ [][NextTable]_vars

\* A Memory is there after Memory::new succeeded.
InitMemory ==
    /\ \E store \in Stores, ty \in MemoryTypes :
         /\ Memory_new(store, ty).res.kind = "ok"
         /\ memories = Memory_new(store, ty).memory
    /\ InitLoader
    /\ globals = <<>>
    /\ tables = <<>>
    /\ functions = <<>>
    /\ sigs = <<>>
    /\ last = Idle

NextMemory == MemoryGrow \/ WasmerMemoryGrow \/ MemoryStore

SpecMemory == InitMemory /\ [][NextMemory]_vars

NextMemoryCopy == WasmerMemoryDataCopy \/ MemoryGrow

SpecMemoryCopy == InitMemory /\ [][NextMemoryCopy]_vars

\* A Function is there after one of its constructors ran: Function::new,
\* new_env, new_dynamic, new_dynamic_env for a host callable, from_export for
\* a function an instance exports (its signature was registered when the
\* module was loaded).
ConstructedFunctions ==
    {Function_new(store, ty, vmctx, <<>>) :
        store \in Stores, ty \in FuncTypes, vmctx \in {"null", "env"}}
    \cup {Function_new_dynamic(store, ty, withEnv, <<>>) :
            store \in Stores, ty \in FuncTypes, withEnv \in BOOLEAN}
    \cup {[function |-> Function_from_export(store,
                           [address |-> "body", vmctx |-> "vmctx",
                            signature |-> register_signature(<<>>, ty).signature,
                            kind |-> "Static"]),
           sigs |-> register_signature(<<>>, ty).sigs] :
            store \in Stores, ty \in FuncTypes}

InitFunction ==
    /\ \E c \in ConstructedFunctions :
         /\ functions = <<c.function>>
         /\ sigs = c.sigs
    /\ InitLoader
    /\ globals = <<>>
    /\ tables = <<>>
    /\ memories = <<>>
    /\ last = Idle

NextFunction == FunctionCall \/ FuncWrapper

SpecFunction == InitFunction /\ [][NextFunction]_vars

\* The engine may have loaded modules before: its registry may hold a
\* signature already.
InitLoad ==
    /\ modules = <<>>
    /\ code = <<>>
    /\ sigs \in {<<>>, <<I32I32_I32>>}
    /\ frames = <<>>
    /\ threads = <<>>
    /\ instances = <<>>
    /\ globals = <<>>
    /\ tables = <<>>
    /\ memories = <<>>
    /\ functions = <<>>
    /\ last = Idle

NextLoad ==
    \/ ModuleNew
    \/ ModuleFromBinary
    \/ ModuleFromBinaryUnchecked
    \/ ModuleDeserialize
    \/ ModuleSerialize

SpecLoad == InitLoad /\ [][NextLoad]_vars

\* Two modules were compiled, the second one from a binary with a name.
InitModuleName ==
    /\ modules = <<Module_from_compiled_module(1, SharedArtifact(1, None)),
                   Module_from_compiled_module(1, SharedArtifact(2, Some("named")))>>
    /\ code = <<>>
    /\ frames = <<>>
    /\ threads = EmptyBag
    /\ instances = <<>>
    /\ sigs = <<>>
    /\ globals = <<>>
    /\ tables = <<>>
    /\ memories = <<>>
    /\ functions = <<>>
    /\ last = Idle

NextModuleName ==
    \/ ModuleClone
    \/ ModuleDrop
    \/ InstanceDrop
    \/ ModuleSetName
    \/ ModuleInstantiate
    \/ ModuleRegisterFrameInfoLock
    \/ ModuleRegisterFrameInfo
    \/ ModuleInstanceHandleNew

SpecModuleName == InitModuleName /\ [][NextModuleName]_vars

\* The registries an engine may hold before a module is loaded.
EarlierSignatures == {<<>>, <<I32_I32>>, <<FunctionType_new(<<"FuncRef">>, <<>>), Unit_I32>>}

\* A module was loaded and instantiated; the instance holds its exports.
InitExport ==
    /\ \E e \in 1..Len(ExportingModuleTable), pre \in EarlierSignatures :
         LET info == ExportingModuleTable[e]
             sm == SerializableModule(
                       Compilation(Len(info.functions) - NumImportedFuncs(info), info, FALSE),
                       info, [bulk_memory |-> FALSE], <<>>)
             r == CompiledModule_from_parts(JITEngineInner(<<>>, pre, <<>>), sm, TRUE)
             compiled == Only(r.compiled)
             handle == InstanceHandle_new(info, <<>>, compiled.signatures)
         IN  /\ modules = <<Module_from_compiled_module(1, compiled)>>
             /\ code = r.jit.code
             /\ sigs = r.jit.sigs
             /\ instances = <<handle>>
             /\ functions = Instance_exports(1, handle, compiled.finished_functions)
    /\ frames = <<>>
    /\ threads = <<>>
    /\ globals = <<>>
    /\ tables = Table_new(1, [minimum |-> 1, maximum |-> None], Val_null).table
    /\ memories = <<>>
    /\ last = Idle

NextExport ==
    \/ HostFunctionNew
    \/ ExportTableSet \/ CallIndirect
    \/ ExportCall \/ NativeFuncCall

SpecExport == InitExport /\ [][NextExport]_vars

\* The registry of the engine while the program registers the signatures of
\* host functions and earlier users of the engine release theirs.
NextRegistry == HostFunctionNew \/ SignatureRelease

SpecRegistry == InitExport /\ [][NextRegistry]_vars

\* The modules that are instantiated: every descriptor, with and without the
\* bulk-memory feature, with data segments that fit or do not fit its memory.
InstantiableModules ==
    { SerializableModule(Compilation(1, ModuleInfoTable[c[1]], FALSE),
                         ModuleInfoTable[c[1]], [bulk_memory |-> b], c[2]) :
        b \in BOOLEAN,
        c \in { <<1, <<Segment(1, <<7, 8>>), Segment(0, <<9>>)>> >>,
                <<2, <<Segment(0, <<7>>)>> >>,
                <<3, <<Segment(0, <<7>>)>> >>,
                <<4, <<Segment(1, <<7>>)>> >>,
                <<5, <<Segment(0, <<7>>), Segment(2, <<8>>)>> >> } }

\* A module was loaded by from_parts and no thread has called instantiate.
InitInstantiate ==
    /\ \E sm \in InstantiableModules :
         LET r == CompiledModule_from_parts(JITEngineInner(<<>>, <<>>, <<>>), sm, TRUE)
         IN  /\ modules = <<Module_from_compiled_module(1, Only(r.compiled))>>
             /\ code = r.jit.code
             /\ sigs = r.jit.sigs
    /\ frames = <<>>
    /\ threads = [t \in Threads |-> ThreadIdle]
    /\ instances = <<>>
    /\ globals = <<>>
    /\ tables = <<>>
    /\ memories = <<>>
    /\ functions = <<>>
    /\ last = Idle

NextInstantiate ==
    \E t \in Threads :
        \/ InstantiateResolve(t)
        \/ InstantiateCreate(t)
        \/ RegisterFrameInfoLock(t)
        \/ RegisterFrameInfoCheck(t)
        \/ RegisterFrameInfoRegister(t)
        \/ InstanceHandleNew(t)
        \/ FinishInstantiation(t)

SpecInstantiate == InitInstantiate /\ [][NextInstantiate]_vars

---------------------------------------------------------------------------
(* Global::set (C1)                                                        *)

\* C1: Global::set returns an error whenever the global is immutable (then
\* with the message "immutable global cannot be set") or the type of the value
\* differs from the declared value type of the global, and after every
\* failing call get() returns what it returned before the call.
C1_GlobalSetFailsAndKeepsValue ==
    last.op = "Global::set" =>
        LET g == globals[last.obj]
        IN  /\ g.ty.mutability # "Var"
                => last.res = Err("immutable global cannot be set")
            /\ (g.ty.mutability # "Var" \/ Val_ty(last.val) # g.ty.ty)
                => last.res.kind = "err"
            /\ last.res.kind # "ok" => Global_get(g) = last.pre

\* An immutable global was set to a value of its type other than the one it
\* holds: the call failed and the global holds what it held.
C1_Witness ==
    /\ last.op = "Global::set"
    /\ globals[last.obj].ty.mutability = "Const"
    /\ last.val.ty = globals[last.obj].ty.ty
    /\ last.val # last.pre
    /\ last.res = Err("immutable global cannot be set")
    /\ Global_get(globals[last.obj]) = last.pre

---------------------------------------------------------------------------
(* Cross-store rejection (C2)                                              *)

\* The argument list does not fit the signature: in count or in a slot's type.
ArgsMismatch(f, params) == Types(params) # Function_ty(f).params

CrossStoreOps ==
    { "Global::new", "Global::set", "Table::new", "Table::set", "Table::grow",
      "Table::copy", "Function::call" }

\* The object the last operation worked on is as it was before the operation.
TargetUnchanged ==
    CASE last.op = "Global::new" -> Len(globals) < last.obj
      [] last.op = "Global::set" -> Global_get(globals[last.obj]) = last.pre
      [] last.op = "Table::new" -> Len(tables) < last.obj
      [] last.op \in {"Table::set", "Table::grow", "Table::copy"}
            -> tables[last.obj].elems = last.pre
      [] OTHER -> TRUE

\* C2: every extern operation that is handed an Extern or Val of another
\* store fails with a cross-store RuntimeError and leaves its target as it was
\* (for Function::call: with arguments that fit the signature, so that nothing
\* but the store is wrong with them).
C2_CrossStoreAlwaysRejected ==
    ( /\ last.op \in CrossStoreOps
      /\ last.xstore
      /\ last.op = "Function::call"
            => ~ArgsMismatch(functions[last.obj], last.params) ) =>
        /\ last.res.kind = "err"
        /\ last.res.msg \in CrossStoreMsgs
        /\ TargetUnchanged

---------------------------------------------------------------------------
(* Table::grow (C3)                                                        *)

\* C3: after Table::grow(delta, init) returned Ok(prev), prev is the size
\* before the call, get(i) = init for every i in [prev, prev + delta), and no
\* element below prev was modified.
C3_TableGrowInitialisesNewElements ==
    (last.op = "Table::grow" /\ last.res.kind = "ok") =>
        LET t == tables[last.obj]
        IN  \A prev \in last.ret :
                /\ prev = Len(last.pre)
                /\ \A i \in prev..(prev + last.delta - 1) :
                       Table_get(t, i) = Some(last.val)
                /\ \A i \in 0..(prev - 1) : t.elems[i + 1] = last.pre[i + 1]

---------------------------------------------------------------------------
(* Memory::grow and Memory::data_size (C4, C5, C6)                         *)

\* C4: after Memory::grow(delta) returned Ok(prev), prev is the size in pages
\* before the call, size() = prev + delta and every byte of the added range
\* is zero (wasmer_memory_grow reports the same growth as WASMER_OK).
C4_MemoryGrowOk ==
    (last.op \in {"Memory::grow", "wasmer_memory_grow"} /\ last.res.kind = "ok") =>
        LET mem == memories[last.obj]
        IN  /\ last.ret = Some(last.pre_size)
            /\ Memory_size(mem) = last.pre_size + last.delta
            /\ \A a \in ProbeAddrs(Memory_size(mem)) :
                   a >= last.pre_size * WASM_PAGE_SIZE
                       => /\ a \in DOMAIN Memory_memory(mem).bytes
                          /\ Memory_memory(mem).bytes[a] = 0

\* A memory holding a non-zero byte was grown by at least one page.
C4_Witness ==
    /\ last.op = "Memory::grow"
    /\ last.res.kind = "ok"
    /\ last.delta > 0
    /\ last.pre_size > 0
    /\ \E a \in DOMAIN Memory_memory(memories[last.obj]).bytes :
           Memory_memory(memories[last.obj]).bytes[a] = 255

\* C5: a grow(delta) that would exceed the declared maximum returns
\* Err(CouldNotGrow{current, attempted_delta}) with current the size at the
\* call and attempted_delta = delta, and leaves size() unchanged.
C5_MemoryGrowBeyondMaximum ==
    last.op = "Memory::grow" =>
        LET mem == memories[last.obj]
        IN  \A max \in Memory_memory(mem).maximum :
                last.pre_size + last.delta > max
                    => /\ last.res = CouldNotGrow(last.pre_size, last.delta)
                       /\ last.ret = None
                       /\ Memory_size(mem) = last.pre_size

\* Minimum 1, maximum 2: after grow(1) = Ok(1) the second grow(1) returned
\* Err(CouldNotGrow{current: 2, attempted_delta: 1}).
C5_Witness ==
    /\ last.op = "Memory::grow"
    /\ Memory_memory(memories[last.obj]).minimum = 1
    /\ Memory_memory(memories[last.obj]).maximum = Some(2)
    /\ last.pre_size = 2
    /\ last.delta = 1
    /\ last.res = CouldNotGrow(2, 1)
    /\ Memory_size(memories[last.obj]) = 2

\* C6: in every reachable state data_size() = size() in pages * 65536.
C6_DataSizeIsPagesTimesPageSize ==
    \A i \in 1..Len(memories) :
        Memory_data_size(memories[i]) = Memory_size(memories[i]) * WASM_PAGE_SIZE

\* A grow failed on a memory that had been grown before.
C6_Witness ==
    /\ last.op = "Memory::grow"
    /\ last.res.kind = "err"
    /\ Memory_size(memories[last.obj]) > Memory_memory(memories[last.obj]).minimum
    /\ Memory_data_size(memories[last.obj]) = 2 * WASM_PAGE_SIZE

---------------------------------------------------------------------------
(* Function::call (C7, C8)                                                 *)

\* C7: for every Function, Wasm-defined or host-defined, a call whose
\* arguments mismatch the signature returns a RuntimeError and the callee is
\* never invoked.
C7_CallChecksArguments ==
    (last.op = "Function::call" /\ ArgsMismatch(functions[last.obj], last.params)) =>
        /\ last.res.kind = "err"
        /\ last.invoked = <<>>

\* C8: Function::call on a host-defined Function invokes the host callable
\* with the given arguments and returns the values the callable produced.
C8_HostCallInvokesCallable ==
    ( /\ last.op = "Function::call"
      /\ functions[last.obj].definition = "Host"
      /\ ~ArgsMismatch(functions[last.obj], last.params)
      /\ last.callee.kind = "ok"
      /\ Types(last.callee.vals) = Function_ty(functions[last.obj]).results ) =>
        /\ last.invoked = <<last.params>>
        /\ last.res.kind = "ok"
        /\ last.results = last.callee.vals

---------------------------------------------------------------------------
(* The reverse trampoline (C9, C10)                                        *)

\* C9: when the dynamic host callable returns Ok(values) whose length or
\* per-slot types differ from the result types of the signature, the call
\* ends in the user trap of a wrong-signature RuntimeError, never in a normal
\* return.
C9_WrongSignatureIsUserTrap ==
    ( /\ last.op = "func_wrapper"
      /\ last.host.kind = "ok"
      /\ Types(last.host.vals) # last.func_ty.results ) =>
        /\ last.outcome = "raise_user_trap"
        /\ last.msg = "Dynamic function returned wrong signature"

\* The callable returned as many values as the signature has results, one of
\* another type.
C9_Witness ==
    /\ last.op = "func_wrapper"
    /\ last.host.kind = "ok"
    /\ Len(last.host.vals) = Len(last.func_ty.results)
    /\ Len(last.host.vals) > 0
    /\ Types(last.host.vals) # last.func_ty.results
    /\ last.outcome = "raise_user_trap"

\* C10: every execution of the reverse trampoline ends in exactly one of a
\* normal return (exactly when the callable returned Ok with a matching
\* signature, and then all results are in values_vec), a raised user trap
\* (whenever the callable returned Err) or a resumed panic (exactly when the
\* callable panicked): a panic never leaves the trampoline another way.
C10_ReverseTrampolineOutcomes ==
    last.op = "func_wrapper" =>
        /\ last.outcome \in {"return", "raise_user_trap", "resume_panic"}
        /\ last.outcome = "return"
              <=> (last.host.kind = "ok"
                      /\ Types(last.host.vals) = last.func_ty.results)
        /\ last.outcome = "return"
              => \A k \in 1..Len(last.host.vals) :
                     last.values_vec[k] = Val_write_value_to(last.host.vals[k])
        /\ last.host.kind = "err" => last.outcome = "raise_user_trap"
        /\ last.outcome = "resume_panic" <=> last.host.kind = "panic"

\* The host callable panicked and the panic was resumed.
C10_Witness ==
    /\ last.op = "func_wrapper"
    /\ last.host.kind = "panic"
    /\ last.outcome = "resume_panic"
    /\ last.passed = last.args

---------------------------------------------------------------------------
(* The loader (C13, C14, C15, C16, C17)                                    *)

\* The compiled module the last load produced.
LoadOps ==
    { "Module::new", "Module::from_binary", "Module::from_binary_unchecked",
      "Module::deserialize" }

\* C13: for every module from_parts returned, every function-body pointer
\* points at executable code holding that body, and the shared-signature
\* table has, for every signature index of the descriptor in order, an id
\* the registry of the engine maps to that signature.
C13_FromPartsPublishesAndRegisters ==
    \A m \in 1..Len(modules) :
        LET c == modules[m].compiled
            bodies == c.serializable.compilation.function_bodies
            signatures == c.serializable.module.signatures
        IN  /\ Len(c.finished_functions) = Len(bodies)
            /\ \A i \in 1..Len(bodies) :
                   /\ c.finished_functions[i] \in 1..Len(code)
                   /\ code[c.finished_functions[i]].bytes = bodies[i]
                   /\ code[c.finished_functions[i]].state = "executable"
            /\ Len(c.signatures) = Len(signatures)
            /\ \A k \in 1..Len(signatures) :
                   /\ c.signatures[k] \in 1..Len(sigs)
                   /\ lookup_signature(sigs, c.signatures[k]) = signatures[k]

\* A module with two functions and three signature indices was loaded into
\* an engine whose registry held one of the signatures already: the ids are
\* <<2, 1, 2>>.
C13_Witness ==
    /\ last.op \in LoadOps
    /\ last.res.kind = "ok"
    /\ last.pre_sigs # <<>>
    /\ Len(modules) = 1
    /\ Len(modules[1].compiled.finished_functions) = 2
    /\ modules[1].compiled.signatures = <<2, 1, 2>>

\* C14: deserialize rejects every input that does not begin with the magic
\* header and the version with DeserializeError::InvalidBinary, before any
\* code memory is allocated or linked.
C14_DeserializeValidatesHeader ==
    (last.op = "Module::deserialize" /\ ~StartsWithHeader(last.input)) =>
        /\ last.res = Err("DeserializeError::InvalidBinary")
        /\ last.log = <<>>
        /\ code = last.pre_code

\* C15: for every loaded module M, deserialize(serialize(M)) succeeds and the
\* module it yields has, in every map of the compilation, the length and the
\* value at every index that M has.
C15_SerializeDeserializeRoundTrip ==
    \A m \in 1..Len(modules) :
        LET M == modules[m].compiled.serializable.compilation
            r == Module_deserialize(Engine, Module_serialize(modules[m]), TRUE)
        IN  /\ r.res = Ok
            /\ \A d \in r.compiled :
                 LET D == d.serializable.compilation
                 IN  /\ D.function_bodies = M.function_bodies
                     /\ D.function_relocations = M.function_relocations
                     /\ D.function_jt_offsets = M.function_jt_offsets
                     /\ D.function_frame_info = M.function_frame_info
                     /\ D.function_call_trampolines = M.function_call_trampolines
                     /\ D.dynamic_function_trampolines = M.dynamic_function_trampolines
                     /\ D.custom_sections = M.custom_sections
                     /\ D.custom_section_relocations = M.custom_section_relocations
                     /\ D.debug = M.debug

\* The bytes of a module with two functions, a custom section and debug
\* information were written by serialize and loaded by deserialize.
C15_Witness ==
    /\ last.op = "Module::deserialize"
    /\ last.res.kind = "ok"
    /\ Len(modules) = 1
    /\ last.input = Module_serialize(modules[1])
    /\ Len(modules[1].compiled.serializable.compilation.function_bodies) = 2
    /\ Len(modules[1].compiled.serializable.compilation.custom_sections) = 1
    /\ modules[1].compiled.serializable.compilation.debug # None

\* C16: a deserialize that returned a module allocated code memory, then ran
\* the linker, then published the code; the functions of the module are
\* linked with the deserialized relocations and executable.
C16_DeserializeLoadsLikeCompiledCode ==
    (last.op = "Module::deserialize" /\ last.res.kind = "ok") =>
        LET c == modules[Len(modules)].compiled
        IN  /\ \E i, j, k \in 1..Len(last.log) :
                   /\ i < j /\ j < k
                   /\ last.log[i] = "allocate"
                   /\ last.log[j] = "link"
                   /\ last.log[k] = "publish"
            /\ \A i \in 1..Len(c.finished_functions) :
                   /\ c.finished_functions[i] > Len(last.pre_code)
                   /\ code[c.finished_functions[i]].linked
                   /\ code[c.finished_functions[i]].relocs
                          = c.serializable.compilation.function_relocations[i]
                   /\ code[c.finished_functions[i]].state = "executable"

\* A module with relocations was deserialized.
C16_Witness ==
    /\ last.op = "Module::deserialize"
    /\ last.res.kind = "ok"
    /\ \E i \in 1..Len(modules[Len(modules)].compiled.finished_functions) :
           code[modules[Len(modules)].compiled.finished_functions[i]].relocs # <<>>

\* The place of the first occurrence of a step in a log, 0 if there is none.
StepAt(log, step) ==
    IF \E i \in 1..Len(log) : log[i] = step
    THEN CHOOSE i \in 1..Len(log) : log[i] = step /\ \A j \in 1..(i - 1) : log[j] # step
    ELSE 0

\* C17: Module::from_binary compiles only after validate returned Ok and
\* returns the CompileError of a failed validation without compiling; a
\* compilation that no validation preceded was reached through
\* from_binary_unchecked alone (directly, or from Module::new for text).
C17_FromBinaryValidatesFirst ==
    /\ last.op = "Module::from_binary" =>
          /\ StepAt(last.log, "validate") = 1
          /\ StepAt(last.log, "compile") # 0 => last.input.valid
          /\ ~last.input.valid
                => /\ last.res = Err("CompileError::Validate")
                   /\ StepAt(last.log, "compile") = 0
                   /\ code = last.pre_code
    /\ (last.op \in LoadOps /\ StepAt(last.log, "compile") # 0
            /\ StepAt(last.log, "validate") = 0)
          => \/ last.op = "Module::from_binary_unchecked"
             \/ last.op = "Module::new" /\ last.input.form = "wat"

\* from_binary was handed an invalid binary that the compiler would accept.
C17_Witness ==
    /\ last.op = "Module::from_binary"
    /\ ~last.input.valid
    /\ last.input.compiles
    /\ last.res = Err("CompileError::Validate")
    /\ last.log = <<"validate">>

---------------------------------------------------------------------------
\* Frame-info registration.

\* The guarded registration state of the module: None is Unregistered.
Registration == TheModule.frame_info_registration.value

\* The thread's instantiate has come back from register_frame_info.
PastRegistration(t) ==
    \/ threads[t].pc \in {"new", "returned", "finished"}
    \/ threads[t].pc = "done" /\ threads[t].res.msg.error = "Start"

\* C11: whatever the number of instantiate calls on a CompiledModule and
\* however the threads interleave, the global register_frame_info is
\* performed at most once, and exactly once as soon as one instantiate has
\* gone through the registration step.
C11_FrameInfoRegisteredOnce ==
    /\ Len(frames) <= 1
    /\ (\E t \in Threads : PastRegistration(t)) => Len(frames) = 1

\* Every thread has instantiated the module and got past the registration.
C11_Witness ==
    /\ \A t \in Threads : PastRegistration(t)
    /\ \E t \in Threads : threads[t].pc = "returned"
    /\ Len(frames) = 1

\* C12: the module is Unregistered after from_parts, becomes Registered in
\* the registration step of an instantiate (the first to reach it), is
\* Registered whenever an instantiate is past that step, and never goes back
\* to Unregistered.
C12_RegistrationDeferredAndPermanent ==
    /\ Registration = None
    /\ [][ /\ Registration # None => Registration' # None
           /\ (Registration = None /\ Registration' # None)
                 => \E t \in Threads : /\ threads[t].pc = "register"
                                       /\ threads'[t].pc = "new"
                                       /\ \A u \in Threads : ~PastRegistration(u) ]_vars
    /\ [](\A t \in Threads : PastRegistration(t) => Registration # None)

\* A later instantiate finds the module Registered by an earlier one that has
\* already finished.
C12_Witness ==
    /\ Registration # None
    /\ \E t, u \in Threads : /\ threads[t].pc = "finished"
                             /\ threads[u].pc = "check"
                             /\ Len(frames) = 1

---------------------------------------------------------------------------
\* Import resolution.

\* The imports the module declares, and what is wrong with import i under
\* the resolver thread t instantiated with.
DeclaredImports == TheModule.serializable.module.imports
Provided(t, i) ==
    { x \in threads[t].resolver : /\ x.module = DeclaredImports[i].module
                                  /\ x.field = DeclaredImports[i].field }
UnknownImports(t) == { i \in 1..Len(DeclaredImports) : Provided(t, i) = {} }
IncompatibleImports(t) ==
    { i \in 1..Len(DeclaredImports) :
        \E x \in Provided(t, i) : ~is_compatible(x.ty, DeclaredImports[i].ty) }
FirstOf(S) == CHOOSE i \in S : \A j \in S : i <= j

\* C18: an instantiate whose resolver does not provide an import of the
\* module under its (module, field) name fails with
\* InstantiationError::Link(LinkError::UnknownImport), one whose resolver
\* provides it with an incompatible type fails with
\* InstantiationError::Link(LinkError::IncompatibleImportType); neither
\* produces an InstanceHandle, and no other instantiate reports these errors.
C18_ImportsResolvedOrLinkError ==
    /\ \A t \in Threads : threads[t].pc # "idle" =>
         LET bad == UnknownImports(t) \cup IncompatibleImports(t)
             im == DeclaredImports[FirstOf(bad)]
         IN  IF bad # {}
             THEN /\ threads[t].pc = "done"
                  /\ threads[t].handle = 0
                  /\ threads[t].res =
                       InstantiationError_Link(
                           IF FirstOf(bad) \in UnknownImports(t)
                           THEN LinkError_UnknownImport(im.module, im.field)
                           ELSE LinkError_IncompatibleImportType(im.module, im.field))
             ELSE threads[t].res.kind = "err" =>
                     \/ threads[t].res.msg.error = "Start"
                     \/ threads[t].res.msg.of = LinkError_Resource
    /\ Len(instances) = Cardinality({ t \in Threads : threads[t].handle # 0 })

\* One instantiate was given nothing for the memory import, another a memory
\* of the declared minimum that has no maximum.
C18_Witness ==
    /\ Len(DeclaredImports) = 1
    /\ DeclaredImports[1].ty.kind = "memory"
    /\ \E t, u \in Threads :
         /\ threads[t].res = InstantiationError_Link(
                LinkError_UnknownImport(DeclaredImports[1].module, DeclaredImports[1].field))
         /\ threads[u].resolver =
                {ImportType(DeclaredImports[1].module, DeclaredImports[1].field,
                            ExternType_Memory(DeclaredImports[1].ty.minimum, None))}
         /\ threads[u].res = InstantiationError_Link(
                LinkError_IncompatibleImportType(DeclaredImports[1].module,
                                                 DeclaredImports[1].field))
    /\ instances = <<>>

---------------------------------------------------------------------------
\* Initialization and the start function.

\* The threads whose finish_instantiation has returned, and their instances.
Finished == { t \in Threads : threads[t].pc = "finished" }
InstanceOf(t) == instances[threads[t].handle]

\* C19: the start function of an instance has run only if
\* finish_instantiation was called on the handle that instantiate had
\* returned with Ok, at most once per call; until then it has not run; and
\* when it traps, finish_instantiation returns
\* InstantiationError::Start(RuntimeError::from_trap(trap)).
C19_StartRunsInFinishInstantiation ==
    /\ \A h \in 1..Len(instances) :
         /\ instances[h].start_calls <= instances[h].finish_calls
         /\ instances[h].start_calls > 0 =>
               /\ instances[h].module.start_func
               /\ \E t \in Finished : threads[t].handle = h /\ threads[t].res = Ok
    /\ \A t \in Threads :
         /\ threads[t].pc = "returned" => InstanceOf(t).start_calls = 0
         /\ (t \in Finished /\ InstanceOf(t).start_calls > 0) =>
               threads[t].finish =
                  IF threads[t].start_traps
                  THEN InstantiationError_Start(RuntimeError_from_trap("Unreachable"))
                  ELSE Ok

\* The start function of one instance trapped in finish_instantiation while
\* another instance, returned by instantiate, has not been finished.
C19_Witness ==
    \E t, u \in Threads :
        /\ t \in Finished
        /\ InstanceOf(t).start_calls = 1
        /\ threads[t].finish =
              InstantiationError_Start(RuntimeError_from_trap("Unreachable"))
        /\ threads[u].pc = "returned"
        /\ InstanceOf(u).start_calls = 0

\* The segments of the module that do not fit the table or the memory.
ElementSegments == TheModule.serializable.module.table_elements
DataSegments == TheModule.serializable.data_initializers
OutOfBounds(segments, cells) ==
    { i \in 1..Len(segments) : segments[i].offset + Len(segments[i].data) > Len(cells) }

\* Every cell that differs from its content before initialization holds the
\* value a segment that is in bounds puts there.
OnlyInBoundsCommitted(segments, cells) ==
    \A a \in 1..Len(cells) : cells[a] # 0 =>
        \E i \in 1..Len(segments) \ OutOfBounds(segments, cells) :
            /\ segments[i].offset < a
            /\ a <= segments[i].offset + Len(segments[i].data)
            /\ cells[a] = segments[i].data[a - segments[i].offset]

\* C20: without bulk_memory, a module with a segment out of bounds traps in
\* finish_instantiation with its tables and memories as they were before the
\* initialization and its start function not run; with bulk_memory, the
\* table and the memory hold nothing but what segments in bounds put there.
C20_SegmentInitFollowsBulkMemory ==
    \A t \in Finished :
        LET inst == InstanceOf(t)
            oob == OutOfBounds(ElementSegments, inst.table) # {}
                      \/ OutOfBounds(DataSegments, inst.memory) # {}
        IN  IF ~TheModule.serializable.features.bulk_memory
            THEN oob => /\ threads[t].finish.kind = "err"
                        /\ threads[t].finish.msg.error = "Start"
                        /\ \A a \in 1..Len(inst.table) : inst.table[a] = 0
                        /\ \A a \in 1..Len(inst.memory) : inst.memory[a] = 0
                        /\ inst.start_calls = 0
            ELSE /\ OnlyInBoundsCommitted(ElementSegments, inst.table)
                 /\ OnlyInBoundsCommitted(DataSegments, inst.memory)
                 /\ (~oob /\ ElementSegments # <<>>) =>
                        \E a \in 1..Len(inst.table) : inst.table[a] # 0
                 /\ (~oob /\ DataSegments # <<>>) =>
                        \E a \in 1..Len(inst.memory) : inst.memory[a] # 0

\* Without bulk_memory the second data segment is out of bounds and the
\* first, which is in bounds, was not written.
C20_Witness ==
    \E t \in Finished :
        /\ ~TheModule.serializable.features.bulk_memory
        /\ OutOfBounds(ElementSegments, InstanceOf(t).table) = {}
        /\ OutOfBounds(DataSegments, InstanceOf(t).memory) = {2}
        /\ \A a \in 1..Len(InstanceOf(t).memory) : InstanceOf(t).memory[a] = 0
        /\ threads[t].finish =
              InstantiationError_Start(RuntimeError_from_trap("OutOfBounds"))

---------------------------------------------------------------------------
\* Construction of a Global.

\* C27: Global::new and Global::new_mut succeed for every Val of the store
\* the global is created in: the result is Ok, the global has the
\* mutability of the constructor and get() returns the value.
C27_GlobalNewAlwaysSucceeds ==
    (last.op = "Global::new" /\ Val_comes_from_same_store(last.val, last.store)) =>
        /\ last.res = Ok
        /\ Len(globals) = last.obj
        /\ globals[last.obj].ty.mutability = last.mutability
        /\ Global_get(globals[last.obj]) = last.val

---------------------------------------------------------------------------
\* wasmer_memory_data_copy.

\* C30: wasmer_memory_data_copy returns WASMER_OK only when mem_offset +
\* buffer_len is at most the data length of the memory, and then exactly the
\* bytes [mem_offset, mem_offset + buffer_len) hold the buffer; otherwise it
\* returns WASMER_ERROR, and the memory is as it was and nothing outside it
\* was written.
C30_DataCopyStaysInsideMemory ==
    last.op = "wasmer_memory_data_copy" =>
        LET mem == memories[last.obj]
            before == Memory_memory(last.pre).bytes
            after == Memory_memory(mem).bytes
            fits == CopyInBounds(last.pre, last.mem_offset, last.buffer_len)
        IN  /\ last.res = WASMER_OK =>
                 /\ fits
                 /\ \A a \in DOMAIN after :
                       after[a] = IF CopyRange(a, last.mem_offset, last.buffer_len)
                                  THEN 255 ELSE before[a]
            /\ ~fits => /\ last.res = WASMER_ERROR
                        /\ after = before
                        /\ ~last.out_of_bounds_write

---------------------------------------------------------------------------
\* The value array between Function::call_wasm and the forward trampoline.

\* C26: when call_wasm enters the trampoline, values_vec has
\* max(#params, #results) slots, argument i in slot i and zero elsewhere; the
\* trampoline loads argument i from byte offset i * 16 with the i-th
\* parameter type, passes the two vmctx arguments beside the array, makes
\* the indirect call after all loads and before all stores, stores result i
\* at byte offset i * 16, and the caller reads result i back with the i-th
\* result type of the signature.
C26_ValueArrayProtocol ==
    (last.op = "Function::call" /\ last.trace # <<>>) =>
        LET signature == Function_ty(functions[last.obj])
            np == Len(signature.params)
            nr == Len(signature.results)
        IN  /\ Len(last.values_vec) = Max(np, nr)
            /\ \A k \in 1..Len(last.values_vec) :
                  last.values_vec[k] =
                     IF k <= np
                     THEN [v |-> last.params[k].v, store |-> last.params[k].store,
                           sig |-> last.params[k].sig]
                     ELSE [v |-> 0, store |-> 0, sig |-> 0]
            /\ \A k \in 1..np : /\ last.trace[k].op = "load"
                                /\ last.trace[k].offset = (k - 1) * 16
                                /\ last.trace[k].ty = signature.params[k]
            /\ last.trace[np + 1].op = "call_indirect"
            /\ last.trace[np + 1].args = np + 2
            /\ last.invoked = <<last.params>>
            /\ IF last.res = Ok
               THEN /\ Len(last.trace) = np + 1 + nr
                    /\ Len(last.results) = nr
                    /\ \A i \in 1..nr :
                          /\ last.trace[np + 1 + i].op = "store"
                          /\ last.trace[np + 1 + i].result = i
                          /\ last.trace[np + 1 + i].offset = (i - 1) * 16
                          /\ last.results[i] = last.callee.vals[i]
                          /\ last.results[i].ty = signature.results[i]
               ELSE Len(last.trace) = np + 1

\* A Wasm function of type (i32, i32) -> i32 was called with two different
\* arguments and returned.
C26_Witness ==
    /\ last.op = "Function::call"
    /\ last.res = Ok
    /\ Len(last.trace) = 4
    /\ Len(last.params) = 2
    /\ last.params[1].v # last.params[2].v
    /\ last.invoked = <<last.params>>
    /\ last.results = last.callee.vals
    /\ Len(last.results) = 1

---------------------------------------------------------------------------
\* The order of the steps of from_parts.

\* C25: in every load, from_parts allocates, links, registers the
\* signatures and publishes, in this order and each once, so that no
\* relocation is applied after the code was published; when the allocation
\* fails, the load returns the error with no link, registration or
\* publication, and the code memory and the registry are as before.
C25_LinkedBeforeSealed ==
    last.op \in LoadOps =>
        LET at == StepAt(last.log, "allocate")
        IN  /\ last.res.kind = "ok" => at # 0
            /\ at = 0 => \A i \in 1..Len(last.log) :
                            last.log[i] \notin {"link", "register", "publish"}
            /\ at # 0 =>
                 IF last.res.kind = "ok"
                 THEN /\ SubSeq(last.log, at, Len(last.log))
                            = <<"allocate", "link", "register", "publish">>
                      /\ \A p \in 1..Len(code) : code[p].state = "executable"
                 ELSE /\ at = Len(last.log)
                      /\ code = last.pre_code
                      /\ sigs = last.pre_sigs

\* A valid binary that compiles was loaded by from_binary and the allocation
\* of its code memory failed.
C25_Witness ==
    /\ last.op = "Module::from_binary"
    /\ last.res = Err("CompileError::Resource")
    /\ last.log = <<"validate", "compile", "allocate">>
    /\ modules = <<>>

---------------------------------------------------------------------------
\* A failed instantiate.

\* The instantiate of the thread failed before the registration step.
FailedEarly(t) == threads[t].failed_at \in {"resolve", "create"}

\* C28: an instantiate that fails in import resolution or in the creation of
\* the memories, tables and globals returns InstantiationError::Link and has
\* no handle; its steps up to there change neither the registration state of
\* the module, nor the global registry, nor the instances; the module is
\* Registered only once an instantiate got through those steps, and a handle
\* exists only for a Registered module.
C28_FailedInstantiateLeavesModule ==
    /\ [](\A t \in Threads : FailedEarly(t) =>
              /\ threads[t].pc = "done"
              /\ threads[t].res.kind = "err"
              /\ threads[t].res.msg.error = "Link"
              /\ threads[t].handle = 0)
    /\ [][\A t \in Threads :
              (threads[t].pc \in {"idle", "create"} /\ threads'[t] # threads[t])
                 => UNCHANGED <<modules, frames, instances>>]_vars
    /\ []((\A t \in Threads : threads[t].pc = "idle" \/ FailedEarly(t))
              => (Registration = None /\ frames = <<>> /\ instances = <<>>))
    /\ [](\A t \in Threads : threads[t].handle # 0 => Registration # None)

\* One instantiate failed in import resolution and another in the creation
\* of the resources; the module is still Unregistered.
C28_Witness ==
    /\ \E t, u \in Threads : /\ threads[t].failed_at = "resolve"
                             /\ threads[u].failed_at = "create"
    /\ Registration = None
    /\ instances = <<>>

---------------------------------------------------------------------------
\* Module::set_name.

\* C29: set_name on a Module that is the sole holder of its compiled
\* artifact and of the module descriptor returns and name() is the new name;
\* with a clone of the Module, an instance of it alive or its frame info
\* registered (an instantiate reached the registration) the call panics and name() of
\* every handle is what it was; in both cases name() of every other handle
\* is unchanged.
C29_SetNameNeverRenamesOthers ==
    last.op = "Module::set_name" =>
        /\ Len(modules) = Len(last.pre)
        /\ \A k \in 1..Len(modules) :
              k # last.obj => Module_name(modules[k]) = Module_name(last.pre[k])
        /\ IF last.sole
           THEN /\ last.res = Ok
                /\ Module_name(modules[last.obj]) = Some(last.name)
           ELSE /\ last.res.kind = "panic"
                /\ Module_name(modules[last.obj]) = Module_name(last.pre[last.obj])

\* set_name panicked on a Module that has a clone, after an earlier set_name
\* had renamed it.
C29_Witness ==
    /\ last.op = "Module::set_name"
    /\ last.res.kind = "panic"
    /\ \E k \in 1..Len(modules) :
          /\ k # last.obj
          /\ modules[k].compiled.arc = modules[last.obj].compiled.arc
          /\ Module_name(modules[k]) \in {Some(n) : n \in ModuleNames \ {last.name}}

---------------------------------------------------------------------------
\* The exports of an instance.

\* C21: for every function a module exports, the Function the instance
\* holds for the export reports through ty() the function type the module
\* declares for it, whatever was registered before or after.
C21_ExportedFunctionType ==
    instances # <<>> =>
        /\ Len(functions) >= Len(TheExports)
        /\ \A k \in 1..Len(TheExports) :
              /\ functions[k].definition = "Wasm"
              /\ Function_ty(functions[k]) = ExportType_ty(TheInstance.module, TheExports[k])

\* The exports of the second module, loaded into an engine that held other
\* signatures: the shared ids differ from the signature indices, and a host
\* function of a new signature was made afterwards.
C21_Witness ==
    /\ instances # <<>>
    /\ last.op = "Function::new"
    /\ Len(sigs) > Len(last.pre_sigs)
    /\ Len(TheExports) = 3
    /\ \A k \in 1..3 :
          functions[k].exported.signature # TheInstance.module.functions[TheExports[k].func]
    /\ Function_ty(functions[1]) = I32_I32
    /\ Function_ty(functions[3]) = I32I32_I32

\* The function of the instance whose body is at an address.
ExportAt(func_ptr) ==
    {k \in 1..Len(TheExports) : functions[k].exported.address = func_ptr}

\* C23: the element Table::set stores for a Function carries the body
\* address and the shared signature id of that function, and a
\* call_indirect whose call-site signature id differs from the type_index of
\* the element (equivalently, whose call-site signature differs from the
\* type of the function in the element) traps with BadSignature and does
\* not enter the callee; a callee that is entered has the call-site type.
C23_IndirectCallTypeChecked ==
    /\ (last.op = "Table::set" /\ last.res = Ok) =>
          LET elem == tables[1].elems[last.index + 1]
          IN  /\ elem.func_ptr = functions[last.obj].exported.address
              /\ elem.type_index = functions[last.obj].exported.signature
              /\ lookup_signature(sigs, elem.type_index) = Function_ty(functions[last.obj])
    /\ (last.op = "call_indirect" /\ last.index < Table_size(tables[1])) =>
          LET elem == tables[1].elems[last.index + 1]
              site_ty == TheInstance.module.signatures[last.site]
          IN  /\ (elem.func_ptr # 0 /\ elem.type_index # last.sig_id) =>
                    (last.trap = Some("BadSignature") /\ last.entered = None)
              /\ \A k \in ExportAt(elem.func_ptr) :
                    Function_ty(functions[k]) # site_ty =>
                        (last.trap = Some("BadSignature") /\ last.entered = None)
              /\ \A func_ptr \in last.entered :
                    /\ last.trap = None
                    /\ \A k \in ExportAt(func_ptr) : Function_ty(functions[k]) = site_ty

\* A table of size 1 holds a () -> i32 function; a call_indirect of the
\* call-site signature (i32) -> i32 trapped with BadSignature.
C23_Witness ==
    /\ last.op = "call_indirect"
    /\ Table_size(tables[1]) = 1
    /\ last.index = 0
    /\ \E k \in ExportAt(tables[1].elems[1].func_ptr) : Function_ty(functions[k]) = Unit_I32
    /\ TheInstance.module.signatures[last.site] = I32_I32
    /\ last.trap = Some("BadSignature")
    /\ last.entered = None

\* The arguments of the last call match the signature of the export called.
ArgsMatch ==
    Function_ty(functions[last.obj]) =
        FunctionType_new([j \in 1..Len(last.args) |-> "I32"], <<"I32">>)

\* C24: for every export and every argument tuple that matches its
\* signature, Function::call returns Ok with the values the typed call
\* returns for the same arguments, and the typed call returns Ok with the
\* values Function::call returns; with multiply = a * b, add(4, 6) is 10 and
\* double_then_add(4, 6) is 20 on both paths.
C24_DynamicAndNativeAgree ==
    /\ (last.op = "Function::call" /\ ArgsMatch) =>
          /\ last.res = Ok
          /\ Function_native(functions[last.obj], Types(last.params), <<"I32">>) # None
          /\ last.results =
                [j \in 1..1 |-> Val_I32(Func_call(TheExports[last.obj].name, last.args).rets[j])]
    /\ last.op = "NativeFunc::call" =>
          /\ ArgsMatch
          /\ last.res = Ok
          /\ LET d == Export_call(last.obj, [j \in 1..Len(last.args) |-> Val_I32(last.args[j])])
             IN  /\ d.res = Ok
                 /\ d.results = [j \in 1..1 |-> Val_I32(last.rets[j])]
    /\ (last.op \in {"Function::call", "NativeFunc::call"} /\ last.args = <<4, 6>>) =>
          LET got == IF last.op = "Function::call" THEN last.results[1].v ELSE last.rets[1]
          IN  /\ TheExports[last.obj].name = "add" => got = 10
              /\ TheExports[last.obj].name = "double_then_add" => got = 20

\* double_then_add(4, 6) returned 20 through Function::call.
C24_Witness ==
    /\ last.op = "Function::call"
    /\ TheExports[last.obj].name = "double_then_add"
    /\ last.args = <<4, 6>>
    /\ last.res = Ok
    /\ last.results = <<Val_I32(20)>>

\* C22, as stated: any two ids register ever handed out, retired ones
\* included, are equal exactly when their signatures are structurally equal.
C22_SignatureIdsInjective ==
    instances # <<>> =>
        \A i, j \in 1..Len(sigs) :
            SignatureOf(sigs[i]) = SignatureOf(sigs[j]) => i = j

\* C22, amended: the ids that are live are injective (two of them are equal
\* exactly when their signatures are structurally equal), every id the
\* program holds is live, the ids of the module are equal exactly for equal
\* signatures, registering a signature that is present returns its id and
\* adds nothing, any other signature gets an id that was never handed out,
\* and an id keeps its signature until it is retired and stays retired.
C22_LiveSignatureIdsInjective ==
    /\ [](instances # <<>> =>
            /\ \A i, j \in LiveIds(sigs) : sigs[i] = sigs[j] => i = j
            /\ HeldIds \subseteq LiveIds(sigs)
            /\ \A i, j \in 1..Len(TheModule.signatures) :
                  (TheModule.signatures[i] = TheModule.signatures[j])
                      <=> (TheInstance.module.signatures[i] = TheInstance.module.signatures[j])
            /\ last.op = "Function::new" =>
                  LET id == functions[last.obj].exported.signature
                      present == {old \in LiveIds(last.pre_sigs) : last.pre_sigs[old] = last.ty}
                  IN  /\ lookup_signature(sigs, id) = last.ty
                      /\ present # {} => (id \in present /\ sigs = last.pre_sigs)
                      /\ present = {} => id = Len(last.pre_sigs) + 1)
    /\ [][\A id \in 1..Len(sigs) :
              /\ id <= Len(sigs')
              /\ \/ sigs'[id] = sigs[id]
                 \/ (~IsRetired(sigs[id]) /\ sigs'[id] = Retired(sigs[id]))]_vars

\* The id of a signature was retired and the program then registered the
\* same signature for a host function: it got the next id, not the retired
\* one.
C22_Witness ==
    /\ instances # <<>>
    /\ last.op = "Function::new"
    /\ \E old \in 1..Len(last.pre_sigs) : last.pre_sigs[old] = Retired(last.ty)
    /\ functions[last.obj].exported.signature = Len(last.pre_sigs) + 1
    /\ lookup_signature(sigs, Len(sigs)) = last.ty

====
